---- MODULE Spec2Model ----
(***************************************************************************)
(* claude-grep: regex search over session transcripts (search.go), the    *)
(* literal prefilter, and the incremental vector index (index.go,          *)
(* store.go).                                                              *)
(*                                                                         *)
(* Strings are sequences of one-character strings, so that byte-level      *)
(* operations of the source (indexing, slicing, bytes.Contains) are        *)
(* modelled as the code performs them.                                     *)
(***************************************************************************)
EXTENDS Integers, Sequences, FiniteSets, TLC

(***************************************************************************)
(* Bounds of the model.                                                    *)
(***************************************************************************)
\* longest message text (in bytes) a session file of the model holds
MaxTextLen == 3

\* most session files under the search root
MaxFiles == 3

\* session files under the search root when the worker pool is saturated
PoolFiles == 9

\* session files of the project being indexed
NumSessionFiles == 1

\* most records a session file of the indexed project grows to
MaxLines == 2

\* most records of the session file whose parsing is examined
MaxRecords == 3

\* invocations of the indexing command that may run at the same time, when
\* the passes follow one another and when they race
NumInvocations == 1

RaceInvocations == 2

(***************************************************************************)
(* Bytes.                                                                  *)
(***************************************************************************)
\* bytes that message text is made of
Sigma == {"a", "b", "c", "1", " ", "A"}

\* stands for the JSON syntax bytes that separate two text values in the raw
\* file (quotes, braces, keys, the newline between records)
Delim == "#"

Digits == {"1"}

\* bytes.ToLower / strings.ToLower on one byte
ToLowerByte(c) == IF c = "A" THEN "a" ELSE IF c = "B" THEN "b" ELSE c

ToLower(s) == [i \in 1..Len(s) |-> ToLowerByte(s[i])]

\* s[from:to] of Go, on 0-based offsets: bytes from .. to-1
Slice(s, from, to) == SubSeq(s, from + 1, to)

\* strings.HasPrefix
HasPrefix(s, prefix) ==
    /\ Len(s) >= Len(prefix)
    /\ SubSeq(s, 1, Len(prefix)) = prefix

\* bytes.Contains
Contains(data, lit) ==
    \E i \in 0..(Len(data) - Len(lit)) : SubSeq(data, i + 1, i + Len(lit)) = lit

RECURSIVE TrimLeftSet(_, _)
TrimLeftSet(s, cut) ==
    IF s # <<>> /\ Head(s) \in cut THEN TrimLeftSet(Tail(s), cut) ELSE s

RECURSIVE TrimRightSet(_, _)
TrimRightSet(s, cut) ==
    IF s # <<>> /\ s[Len(s)] \in cut
    THEN TrimRightSet(SubSeq(s, 1, Len(s) - 1), cut)
    ELSE s

\* strings.Trim(s, cutset)
Trim(s, cut) == TrimRightSet(TrimLeftSet(s, cut), cut)

\* strings.TrimSpace
TrimSpace(s) == Trim(s, {" "})

RECURSIVE Join(_, _)
\* strings.Join
Join(parts, sep) ==
    IF parts = <<>> THEN <<>>
    ELSE IF Len(parts) = 1 THEN parts[1]
    ELSE parts[1] \o sep \o Join(Tail(parts), sep)

(***************************************************************************)
(* The literal prefilter (search.go).                                      *)
(***************************************************************************)
isRegexMeta(c) ==
    c \in {".", "+", "*", "?", "^", "$", "{", "}", "[", "]", "(", ")", "|", "\\"}

RECURSIVE LongestLiteralFrom(_, _, _, _)
\* the loop of longestLiteral: i is the 0-based offset, best and current its locals
LongestLiteralFrom(s, i, best, current) ==
    IF i >= Len(s)
    THEN IF Len(current) > Len(best) THEN current ELSE best
    ELSE LET c == s[i + 1] IN
         IF c = "\\" /\ i + 1 < Len(s)
         THEN LongestLiteralFrom(s, i + 2, best, Append(current, s[i + 2]))
         ELSE IF isRegexMeta(c)
         THEN LongestLiteralFrom(s, i + 1,
                                 IF Len(current) > Len(best) THEN current ELSE best,
                                 <<>>)
         ELSE LongestLiteralFrom(s, i + 1, best, Append(current, c))

longestLiteral(s) == LongestLiteralFrom(s, 0, <<>>, <<>>)

RECURSIVE DepthAt(_, _)
\* depth after the loop of stripOuterGroup has processed bytes 0..i
DepthAt(s, i) ==
    IF i < 0 THEN 0
    ELSE DepthAt(s, i - 1)
         + (IF s[i + 1] = "(" THEN 1 ELSE IF s[i + 1] = ")" THEN -1 ELSE 0)

stripOuterGroup(s) ==
    IF Len(s) < 2 \/ s[1] # "(" \/ s[Len(s)] # ")" THEN s
    ELSE IF \E i \in 0..(Len(s) - 2) : DepthAt(s, i) = 0 THEN s
    ELSE LET inner == Slice(s, 1, Len(s) - 1) IN
         IF HasPrefix(inner, <<"?", ":">>) THEN Slice(inner, 2, Len(inner))
         ELSE IF HasPrefix(inner, <<"?", "i", ":">>) THEN Slice(inner, 3, Len(inner))
         ELSE IF HasPrefix(inner, <<"?", "i">>) THEN Slice(inner, 2, Len(inner))
         ELSE inner

RECURSIVE SplitFrom(_, _, _, _, _)
\* the loop of splitTopLevelPipe: i, depth, start and parts are its locals
SplitFrom(s, i, depth, start, parts) ==
    IF i >= Len(s) THEN Append(parts, Slice(s, start, Len(s)))
    ELSE LET c == s[i + 1] IN
         IF c = "(" THEN SplitFrom(s, i + 1, depth + 1, start, parts)
         ELSE IF c = ")"
         THEN SplitFrom(s, i + 1, IF depth > 0 THEN depth - 1 ELSE depth, start, parts)
         ELSE IF c = "|" /\ depth = 0
         THEN SplitFrom(s, i + 1, depth, i + 1, Append(parts, Slice(s, start, i)))
         ELSE SplitFrom(s, i + 1, depth, start, parts)

splitTopLevelPipe(s) == SplitFrom(s, 0, 0, 0, <<>>)

\* the literal of one branch, as extractPrefilterLiterals computes it
BranchLiteral(part) == longestLiteral(Trim(part, {"(", ")"}))

\* <<>> is the nil result: prefiltering disabled
extractPrefilterLiterals(pattern) ==
    LET parts == splitTopLevelPipe(stripOuterGroup(pattern)) IN
    IF \E k \in 1..Len(parts) : BranchLiteral(parts[k]) = <<>>
    THEN <<>>
    ELSE [k \in 1..Len(parts) |-> ToLower(BranchLiteral(parts[k]))]

PrefilterPassAll(data, literals) == TRUE

prefilterMatch(data, literals) ==
    \/ Len(literals) = 0
    \/ \E k \in 1..Len(literals) : Contains(ToLower(data), literals[k])

(***************************************************************************)
(* regexp.Compile of "(?i)" + pattern, and Regexp.MatchString, for the     *)
(* syntax the patterns of the model use: literals, escapes (digit class    *)
(* and escaped punctuation), the dot, character classes, groups (plain,    *)
(* non-capturing and case-insensitive), alternation and the postfix        *)
(* operators.  A compiled expression is the set of texts of at most        *)
(* MaxTextLen bytes that it matches entirely.                              *)
(***************************************************************************)
\* texts of exactly n bytes
RECURSIVE TextsOfLen(_)
TextsOfLen(n) ==
    IF n = 0 THEN {<<>>}
    ELSE {Append(t, c) : t \in TextsOfLen(n - 1), c \in Sigma}

\* concatenation of two languages, cut at MaxTextLen
LangCat(A, B) ==
    {x[1] \o x[2] : x \in {y \in A \X B : Len(y[1]) + Len(y[2]) <= MaxTextLen}}

RECURSIVE LangPow(_, _)
\* A repeated at most n times
LangPow(A, n) ==
    IF n = 0 THEN {<<>>} ELSE {<<>>} \cup LangCat(A, LangPow(A, n - 1))

LangStar(A) == LangPow(A, MaxTextLen)

\* the bytes that one literal byte of the pattern matches under (?i)
FoldByte(c) == {<<t>> : t \in {u \in Sigma : ToLowerByte(u) = ToLowerByte(c)}}

\* offset (1-based) of the "]" closing the class opened before position i
RECURSIVE ClassEnd(_, _)
ClassEnd(p, i) == IF p[i] = "]" THEN i ELSE ClassEnd(p, i + 1)

RECURSIVE ParseAlt(_, _)
RECURSIVE ParseCat(_, _)
RECURSIVE ParseRep(_, _)
RECURSIVE ParseAtom(_, _)

\* each parser reads p from position i (1-based) and returns the language read
\* and the position after it
ParseAtom(p, i) ==
    LET c == p[i] IN
    IF c = "("
    THEN LET j == IF i + 2 <= Len(p) /\ SubSeq(p, i + 1, i + 2) = <<"?", ":">>
                  THEN i + 3
                  ELSE IF i + 3 <= Len(p) /\ SubSeq(p, i + 1, i + 3) = <<"?", "i", ":">>
                  THEN i + 4
                  ELSE i + 1
             r == ParseAlt(p, j)
         IN [L |-> r.L, n |-> r.n + 1]
    ELSE IF c = "["
    THEN LET e == ClassEnd(p, i + 1) IN
         [L |-> UNION {FoldByte(p[k]) : k \in (i + 1)..(e - 1)}, n |-> e + 1]
    ELSE IF c = "\\"
    THEN [L |-> IF p[i + 1] = "d" THEN {<<t>> : t \in Digits} ELSE FoldByte(p[i + 1]),
          n |-> i + 2]
    ELSE IF c = "."
    THEN [L |-> {<<t>> : t \in Sigma}, n |-> i + 1]
    ELSE [L |-> FoldByte(c), n |-> i + 1]

ParseRep(p, i) ==
    LET a == ParseAtom(p, i) IN
    IF a.n <= Len(p) /\ p[a.n] = "?" THEN [L |-> a.L \cup {<<>>}, n |-> a.n + 1]
    ELSE IF a.n <= Len(p) /\ p[a.n] = "*" THEN [L |-> LangStar(a.L), n |-> a.n + 1]
    ELSE IF a.n <= Len(p) /\ p[a.n] = "+"
    THEN [L |-> LangCat(a.L, LangStar(a.L)), n |-> a.n + 1]
    ELSE a

ParseCat(p, i) ==
    IF i > Len(p) \/ p[i] \in {"|", ")"} THEN [L |-> {<<>>}, n |-> i]
    ELSE LET a == ParseRep(p, i)
             rest == ParseCat(p, a.n)
         IN [L |-> LangCat(a.L, rest.L), n |-> rest.n]

ParseAlt(p, i) ==
    LET a == ParseCat(p, i) IN
    IF a.n <= Len(p) /\ p[a.n] = "|"
    THEN LET b == ParseAlt(p, a.n + 1) IN [L |-> a.L \cup b.L, n |-> b.n]
    ELSE a

\* regexp.Compile("(?i)" + pattern)
Compile(p) == ParseAlt(p, 1).L

\* re.MatchString(text): some substring of text is matched entirely
MatchString(re, text) ==
    \E i \in 0..Len(text) : \E j \in i..Len(text) : Slice(text, i, j) \in re

RECURSIVE SyntaxErrorFrom(_, _, _)
\* the scan of the expression from position i (1-based) at group depth
\* depth finds one of the errors regexp.Compile reports: a trailing
\* backslash, a missing "]", a missing or unexpected ")", a repetition
\* operator without an argument
SyntaxErrorFrom(p, i, depth) ==
    IF i > Len(p) THEN depth # 0
    ELSE LET c == p[i] IN
         IF c = "\\" THEN i = Len(p) \/ SyntaxErrorFrom(p, i + 2, depth)
         ELSE IF c = "["
         THEN \/ \A k \in (i + 1)..Len(p) : p[k] # "]"
              \/ SyntaxErrorFrom(p, ClassEnd(p, i + 1) + 1, depth)
         ELSE IF c = "("
         THEN IF i + 2 <= Len(p) /\ SubSeq(p, i + 1, i + 2) = <<"?", ":">>
              THEN SyntaxErrorFrom(p, i + 3, depth + 1)
              ELSE IF i + 3 <= Len(p) /\ SubSeq(p, i + 1, i + 3) = <<"?", "i", ":">>
              THEN SyntaxErrorFrom(p, i + 4, depth + 1)
              ELSE SyntaxErrorFrom(p, i + 1, depth + 1)
         ELSE IF c = ")" THEN depth = 0 \/ SyntaxErrorFrom(p, i + 1, depth - 1)
         ELSE IF c \in {"*", "+", "?"} /\ (i = 1 \/ p[i - 1] \in {"(", "|"})
         THEN ~(i >= 3 /\ p[i - 2] = "\\") \/ SyntaxErrorFrom(p, i + 1, depth)
         ELSE SyntaxErrorFrom(p, i + 1, depth)

\* regexp.Compile returns an error
CompileError(p) == SyntaxErrorFrom(p, 1, 0)

(***************************************************************************)
(* Session files.  A file is [readable, mtime, lines]; a line is one JSON  *)
(* record [type, timestamp, message, form, blocks, data].  message tells   *)
(* how the message field decodes into a map: "object", "null" (without     *)
(* error, the map stays nil), "other" (a string, number, array or boolean: *)
(* json.Unmarshal returns an error) or "absent".  form and blocks are the  *)
(* content of that object: form "string" is a content that is a JSON       *)
(* string (held in blocks[1].text), form "blocks" one that is an array of  *)
(* typed blocks, form "none" a content that is missing or neither.  data   *)
(* is [message, form, blocks], the same for data.message ("absent" also    *)
(* when data is missing or not an object).  A timestamp is                 *)
(* 0 (field absent or not a JSON string: the variable stays empty) or a    *)
(* positive number standing for the 19 bytes of the string that            *)
(* parseJSONL keeps (lines 232-238); numbers order as the strings order   *)
(* lexically, and the empty string orders first.                           *)
(***************************************************************************)
\* the bytes of one record as os.ReadFile returns them: every text value,
\* embedded in JSON syntax
RawLine(line) ==
    LET values == line.blocks \o line.data.blocks IN
    <<Delim>> \o Join([k \in 1..Len(values) |-> values[k].text], <<Delim>>) \o <<Delim>>

RawData(lines) == Join([k \in 1..Len(lines) |-> RawLine(lines[k])], <<Delim>>)

\* the texts of the blocks of type "text" that are not empty, in order
RECURSIVE BlockTexts(_)
BlockTexts(blocks) ==
    IF blocks = <<>> THEN <<>>
    ELSE IF blocks[1].type = "text" /\ blocks[1].text # <<>>
    THEN <<blocks[1].text>> \o BlockTexts(Tail(blocks))
    ELSE BlockTexts(Tail(blocks))

\* lines 302-335: the text of the content of the object msgObj
ContentText(form, blocks) ==
    IF form = "string" THEN TrimSpace(blocks[1].text)
    ELSE IF form = "blocks" THEN TrimSpace(Join(BlockTexts(blocks), <<" ">>))
    ELSE <<>>

\* an extractText that never looks at data.message
extractTextNoFallback(line) ==
    IF line.message = "object" THEN ContentText(line.form, line.blocks) ELSE <<>>

\* lines 282-300: msgObj is decoded from message, or from data.message when
\* message is present and its decoding returns an error
extractText(line) ==
    IF line.message = "object" THEN ContentText(line.form, line.blocks)
    ELSE IF line.message = "other" /\ line.data.message = "object"
    THEN ContentText(line.data.form, line.data.blocks)
    ELSE <<>>

RECURSIVE ParseFrom(_, _, _, _)
\* the indices as the loop leaves them
parseJSONLNoRenumber(fpath, lines) == ParseFrom(fpath, lines, 1, <<>>)

\* every kept record appended, none replaced
parseJSONLKeepAll(fpath, lines) ==
    LET kept == SelectSeq(lines, LAMBDA l : l.type \in {"user", "assistant"}
                                             /\ extractText(l) # <<>>)
    IN [i \in 1..Len(kept) |->
           [Role |-> kept[i].type, Type |-> kept[i].type, Text |-> extractText(kept[i]),
            Timestamp |-> kept[i].timestamp, FilePath |-> fpath, MsgIndex |-> i - 1]]

\* the loop of parseJSONL over lines k.., messages being the slice built so far
ParseFrom(fpath, lines, k, messages) ==
    IF k > Len(lines) THEN messages
    ELSE LET line == lines[k]
             text == extractText(line)
             msg == [Role |-> line.type, Type |-> line.type, Text |-> text,
                     Timestamp |-> line.timestamp, FilePath |-> fpath,
                     MsgIndex |-> Len(messages)]
         IN IF line.type \notin {"user", "assistant"} THEN ParseFrom(fpath, lines, k + 1, messages)
            ELSE IF text = <<>> THEN ParseFrom(fpath, lines, k + 1, messages)
            ELSE IF /\ Len(messages) > 0
                    /\ messages[Len(messages)].Timestamp = line.timestamp
                    /\ messages[Len(messages)].Role = line.type
            THEN ParseFrom(fpath, lines, k + 1,
                           [messages EXCEPT ![Len(messages)] = msg])
            ELSE ParseFrom(fpath, lines, k + 1, Append(messages, msg))

RECURSIVE ParseFromStamped(_, _, _, _)
\* a loop that replaces the previous message only when the timestamp is not
\* empty
ParseFromStamped(fpath, lines, k, messages) ==
    IF k > Len(lines) THEN messages
    ELSE LET line == lines[k]
             text == extractText(line)
             msg == [Role |-> line.type, Type |-> line.type, Text |-> text,
                     Timestamp |-> line.timestamp, FilePath |-> fpath,
                     MsgIndex |-> Len(messages)]
         IN IF line.type \notin {"user", "assistant"} \/ text = <<>>
            THEN ParseFromStamped(fpath, lines, k + 1, messages)
            ELSE IF /\ Len(messages) > 0
                    /\ line.timestamp # 0
                    /\ messages[Len(messages)].Timestamp = line.timestamp
                    /\ messages[Len(messages)].Role = line.type
            THEN ParseFromStamped(fpath, lines, k + 1, [messages EXCEPT ![Len(messages)] = msg])
            ELSE ParseFromStamped(fpath, lines, k + 1, Append(messages, msg))

parseJSONLStampedOnly(fpath, lines) ==
    LET messages == ParseFromStamped(fpath, lines, 1, <<>>) IN
    [i \in 1..Len(messages) |-> [messages[i] EXCEPT !.MsgIndex = i - 1]]

parseJSONL(fpath, lines) ==
    LET messages == ParseFrom(fpath, lines, 1, <<>>) IN
    [i \in 1..Len(messages) |-> [messages[i] EXCEPT !.MsgIndex = i - 1]]

\* the window after the match one message short
BuildMatchShortAfter(messages, i, opts) ==
    LET start == IF i - opts.Before < 0 THEN 0 ELSE i - opts.Before
        end == IF i + opts.After > Len(messages) THEN Len(messages) ELSE i + opts.After
    IN [Message |-> messages[i + 1],
        ContextBefore |-> IF opts.Before > 0 THEN Slice(messages, start, i) ELSE <<>>,
        ContextAfter |-> IF opts.After > 0 THEN Slice(messages, i + 1, end) ELSE <<>>]

\* the Match built for messages[i + 1] (i is the 0-based index of the loop)
BuildMatch(messages, i, opts) ==
    LET start == IF i - opts.Before < 0 THEN 0 ELSE i - opts.Before
        end == IF i + opts.After + 1 > Len(messages) THEN Len(messages)
               ELSE i + opts.After + 1
    IN [Message |-> messages[i + 1],
        ContextBefore |-> IF opts.Before > 0 THEN Slice(messages, start, i) ELSE <<>>,
        ContextAfter |-> IF opts.After > 0 THEN Slice(messages, i + 1, end) ELSE <<>>]

RECURSIVE MatchesFrom(_, _, _, _)
\* the loop of searchFileTracked over messages i..
MatchesFrom(messages, i, re, opts) ==
    IF i >= Len(messages) THEN <<>>
    ELSE LET msg == messages[i + 1] IN
         IF opts.Role # "both" /\ msg.Type # opts.Role
         THEN MatchesFrom(messages, i + 1, re, opts)
         ELSE IF ~MatchString(re, msg.Text)
         THEN MatchesFrom(messages, i + 1, re, opts)
         ELSE <<BuildMatch(messages, i, opts)>> \o MatchesFrom(messages, i + 1, re, opts)

\* searchFileTracked on the file as it is on disk
searchFileTracked(fpath, file, re, prefilter, opts) ==
    IF ~file.readable THEN [matches |-> <<>>, prefilterSkipped |-> FALSE]
    ELSE IF ~prefilterMatch(RawData(file.lines), prefilter)
    THEN [matches |-> <<>>, prefilterSkipped |-> TRUE]
    ELSE [matches |-> MatchesFrom(parseJSONL(fpath, file.lines), 0, re, opts),
          prefilterSkipped |-> FALSE]

(***************************************************************************)
(* regexSearch (search.go): the main goroutine, one worker goroutine per   *)
(* file, and the goroutine that closes the results channel.                *)
(***************************************************************************)
\* capacity of the semaphore channel sem
SemCapacity == 8

\* clock ticks in a day
TicksPerDay == 2

LessOldestFirst(a, b) == a.Message.Timestamp < b.Message.Timestamp

\* less(i, j) of the sort.Slice call: newest first
Less(a, b) == a.Message.Timestamp > b.Message.Timestamp

RECURSIVE InsertSorted(_, _)
\* the inner loop of the insertion sort: x, placed after the sorted slice s,
\* is swapped towards the front while less(x, its left neighbour)
InsertSorted(s, x) ==
    IF s # <<>> /\ Less(x, s[Len(s)])
    THEN Append(InsertSorted(SubSeq(s, 1, Len(s) - 1), x), s[Len(s)])
    ELSE Append(s, x)

RECURSIVE SortSlice(_)
\* sort.Slice on a slice of at most 12 elements, which the standard library
\* sorts by insertion
SortSlice(s) ==
    IF s = <<>> THEN <<>>
    ELSE InsertSorted(SortSlice(SubSeq(s, 1, Len(s) - 1)), s[Len(s)])

\* allMatches[:opts.MaxResults] when it is longer
Truncate(s, limit) == IF Len(s) > limit THEN SubSeq(s, 1, limit) ELSE s

RECURSIVE WalkFrom(_, _, _)
\* filepath.Walk visits the paths in lexical order; the callback keeps the
\* files that are not older than the cutoff
WalkFrom(fs, path, cutoff) ==
    IF path \notin DOMAIN fs THEN <<>>
    ELSE IF fs[path].mtime < cutoff THEN WalkFrom(fs, path + 1, cutoff)
    ELSE <<path>> \o WalkFrom(fs, path + 1, cutoff)

findSessionFiles(fs, clock, maxDays) == WalkFrom(fs, 1, clock - maxDays * TicksPerDay)

(***************************************************************************)
(* main (main.go): the path of the project, the rewriting of the pattern.  *)
(* A path is a sequence of bytes; a search path is written relative to     *)
(* ~/.claude/projects, which is the empty sequence.                        *)
(***************************************************************************)
RECURSIVE ReplaceAll(_, _, _)
\* strings.ReplaceAll(s, old, new)
ReplaceAll(s, old, new) ==
    IF Len(s) < Len(old) THEN s
    ELSE IF HasPrefix(s, old) THEN new \o ReplaceAll(Slice(s, Len(old), Len(s)), old, new)
    ELSE <<s[1]>> \o ReplaceAll(Tail(s), old, new)

TrimPrefix(s, prefix) == IF HasPrefix(s, prefix) THEN Slice(s, Len(prefix), Len(s)) ELSE s

encodePath(path) == <<"-">> \o ReplaceAll(TrimPrefix(path, <<"/">>), <<"/">>, <<"-">>)

RECURSIVE NormalizeFrom(_, _)
\* the loop of normalizeBRE over the characters cs
NormalizeFrom(p, cs) ==
    IF cs = <<>> THEN p
    ELSE NormalizeFrom(ReplaceAll(p, <<"\\", cs[1]>>, <<cs[1]>>), Tail(cs))

normalizeBRE(p) == NormalizeFrom(p, <<"|", "(", ")", "+", "?">>)

VARIABLES
    disk,      \* the session files under the search root: path -> file
    now,       \* time.Now(), in ticks
    pattern,   \* arguments of regexSearch
    opts,
    mainpc,    \* position of the main goroutine in regexSearch
    re,        \* the compiled expression
    prefilterLiterals,
    files,     \* result of findSessionFiles
    spawned,   \* number of iterations of the spawning loop done
    wpc,       \* position of the worker goroutine of each file
    sem,       \* number of elements in the channel sem
    results,   \* buffer of the channel results
    closed,    \* results has been closed
    closerpc,  \* position of the goroutine that closes results
    wg,        \* counter of the WaitGroup
    pfSkipped,
    allMatches,
    ret,       \* the returned list
    stats,     \* the returned SearchStats
    store,     \* the persisted index file of the project
    ipc,       \* position of each invocation of runIndex
    reindexAll,
    idx,       \* the Index each invocation holds in memory
    fileList,  \* the session files each invocation found
    cur,       \* number of iterations of the loop over the files done
    info,      \* the modification time os.Stat returned
    messages,  \* the parsed messages of the file being indexed
    msgpos,    \* number of iterations of the loop over the messages done
    totalNew,
    totalSkipped,
    embedCalls,  \* number of calls of embed each invocation made
    embedErrors, \* number of "embed error" lines each invocation printed
    embedFailed, \* the messages an "embed error" line was printed for
    searchErr,   \* the error regexSearch or semanticSearch returned
    args,        \* the command line: flags and whether a pattern is given
    env,         \* what exists and answers outside the process
    cwd,         \* os.Getwd()
    mpc,         \* position of main
    searchPath,  \* result of resolveSearchPath, relative to ~/.claude/projects
    exitCode,    \* the exit code of the process, -1 while it runs
    indexes,     \* the persisted index of each project: name -> Index
    queryVec,    \* the embedding of the query
    consulted    \* the projects whose index semanticSearch has loaded

mainVars == <<args, env, cwd, mpc, searchPath, exitCode, indexes, queryVec, consulted>>

searchVars == <<pattern, opts, mainpc, re, prefilterLiterals, files, spawned, wpc, sem,
                results, closed, closerpc, wg, pfSkipped, allMatches, ret, stats,
                searchErr, mainVars>>

indexVars == <<store, ipc, reindexAll, idx, fileList, cur, info, messages, msgpos,
               totalNew, totalSkipped, embedCalls, embedErrors, embedFailed>>

vars == <<disk, now, searchVars, indexVars>>

outsideSearch == <<disk, now, pattern, opts, indexVars, mainVars>>

\* the search root exists and can be read
RootReachable ==
    IF searchPath = <<>> THEN env.baseExists ELSE env.projectDirExists

\* findSessionFiles on the search root, lines 126-148: the callback returns
\* nil for the error filepath.Walk hands it when the root cannot be read
\* (lines 131-133), so Walk returns nil and no file has been appended
WalkRoot ==
    IF RootReachable
    THEN [files |-> findSessionFiles(disk, now, opts.MaxDays), err |-> "nil"]
    ELSE [files |-> <<>>, err |-> "nil"]

\* lines 55-76: compile, enumerate the files, make the channels, extract the
\* prefilter literals; an error of either of the first two is returned
RegexSearchStart ==
    /\ mainpc = "start"
    /\ IF CompileError(pattern)
       THEN /\ searchErr' = "compile"
            /\ mainpc' = "done"
            /\ UNCHANGED <<re, files, prefilterLiterals>>
       ELSE /\ re' = Compile(pattern)
            /\ files' = WalkRoot.files
            /\ prefilterLiterals' = extractPrefilterLiterals(pattern)
            /\ searchErr' = WalkRoot.err
            /\ mainpc' = IF WalkRoot.err # "nil" THEN "done" ELSE "spawn"
    /\ UNCHANGED <<outsideSearch, spawned, wpc, sem, results, closed, closerpc, wg, pfSkipped,
                   allMatches, ret, stats>>

\* one iteration of the loop of lines 79-94: wg.Add(1) and the go statement
SpawnWorker ==
    /\ mainpc = "spawn"
    /\ spawned < Len(files)
    /\ wg' = wg + 1
    /\ wpc' = [wpc EXCEPT ![files[spawned + 1]] = "acquire"]
    /\ spawned' = spawned + 1
    /\ UNCHANGED <<outsideSearch, searchErr, mainpc, re, prefilterLiterals, files, sem, results, closed,
                   closerpc, pfSkipped, allMatches, ret, stats>>

\* lines 96-99: the loop is over, the closing goroutine is started
SpawnCloser ==
    /\ mainpc = "spawn"
    /\ spawned = Len(files)
    /\ closerpc' = "wait"
    /\ mainpc' = "collect"
    /\ UNCHANGED <<outsideSearch, searchErr, re, prefilterLiterals, files, spawned, wpc, sem, results,
                   closed, wg, pfSkipped, allMatches, ret, stats>>

SemFreeUnbounded == TRUE

\* a send on sem can proceed: the channel of capacity 8 is not full
SemFree == sem < SemCapacity

\* line 83: sem <- struct{}{} blocks while the channel is full
WorkerAcquire(f) ==
    /\ wpc[f] = "acquire"
    /\ SemFree
    /\ sem' = sem + 1
    /\ wpc' = [wpc EXCEPT ![f] = "search"]
    /\ UNCHANGED <<outsideSearch, searchErr, mainpc, re, prefilterLiterals, files, spawned, results,
                   closed, closerpc, wg, pfSkipped, allMatches, ret, stats>>

\* lines 86-92: search the file, count a prefilter skip, send the matches if
\* there are any; the send blocks while the buffer is full
WorkerSearch(f) ==
    /\ wpc[f] = "search"
    /\ LET r == searchFileTracked(f, disk[f], re, prefilterLiterals, opts) IN
       /\ pfSkipped' = IF r.prefilterSkipped THEN pfSkipped + 1 ELSE pfSkipped
       /\ IF Len(r.matches) > 0
          THEN /\ Len(results) < Len(files)
               /\ results' = Append(results, [matches |-> r.matches])
          ELSE results' = results
    /\ wpc' = [wpc EXCEPT ![f] = "exit"]
    /\ UNCHANGED <<outsideSearch, searchErr, mainpc, re, prefilterLiterals, files, spawned, sem, closed,
                   closerpc, wg, allMatches, ret, stats>>

\* a worker that returns without receiving from sem
WorkerExitNoRelease(f) ==
    /\ wpc[f] = "exit"
    /\ wg' = wg - 1
    /\ wpc' = [wpc EXCEPT ![f] = "done"]
    /\ UNCHANGED <<outsideSearch, searchErr, mainpc, re, prefilterLiterals, files, spawned, results,
                   closed, closerpc, pfSkipped, allMatches, ret, stats, sem>>

\* the deferred calls of lines 84 and 82, run back to back when the goroutine
\* returns: <-sem, then wg.Done()
WorkerExit(f) ==
    /\ wpc[f] = "exit"
    /\ sem' = sem - 1
    /\ wg' = wg - 1
    /\ wpc' = [wpc EXCEPT ![f] = "done"]
    /\ UNCHANGED <<outsideSearch, searchErr, mainpc, re, prefilterLiterals, files, spawned, results,
                   closed, closerpc, pfSkipped, allMatches, ret, stats>>

WaitDoneNoWait == TRUE

\* wg.Wait() returns when the counter is zero
WaitDone == wg = 0

\* lines 97-98: wg.Wait(), then close(results)
CloseResults ==
    /\ closerpc = "wait"
    /\ WaitDone
    /\ closed' = TRUE
    /\ closerpc' = "done"
    /\ UNCHANGED <<outsideSearch, searchErr, mainpc, re, prefilterLiterals, files, spawned, wpc, sem,
                   results, wg, pfSkipped, allMatches, ret, stats>>

\* lines 102-104: one iteration of the range loop
Collect ==
    /\ mainpc = "collect"
    /\ results # <<>>
    /\ allMatches' = allMatches \o Head(results).matches
    /\ results' = Tail(results)
    /\ UNCHANGED <<outsideSearch, searchErr, mainpc, re, prefilterLiterals, files, spawned, wpc, sem,
                   closed, closerpc, wg, pfSkipped, ret, stats>>

\* the range loop ends when the channel is closed and drained
CollectEnd ==
    /\ mainpc = "collect"
    /\ results = <<>>
    /\ closed
    /\ mainpc' = "sort"
    /\ UNCHANGED <<outsideSearch, searchErr, re, prefilterLiterals, files, spawned, wpc, sem, results,
                   closed, closerpc, wg, pfSkipped, allMatches, ret, stats>>

\* lines 106-122: sort, limit, build the stats, return
SortAndReturn ==
    /\ mainpc = "sort"
    /\ ret' = Truncate(SortSlice(allMatches), opts.MaxResults)
    /\ stats' = [FilesTotal |-> Len(files), PrefilterSkipped |-> pfSkipped,
                 RegexSearched |-> Len(files) - pfSkipped]
    /\ mainpc' = "done"
    /\ UNCHANGED <<outsideSearch, searchErr, re, prefilterLiterals, files, spawned, wpc, sem, results,
                   closed, closerpc, wg, pfSkipped, allMatches>>

Next ==
    \/ RegexSearchStart
    \/ SpawnWorker
    \/ SpawnCloser
    \/ \E f \in DOMAIN disk : WorkerAcquire(f)
    \/ \E f \in DOMAIN disk : WorkerSearch(f)
    \/ \E f \in DOMAIN disk : WorkerExit(f)
    \/ CloseResults
    \/ Collect
    \/ CollectEnd
    \/ SortAndReturn

\* the state when regexSearch is entered
SearchLocals ==
    /\ re = {}
    /\ prefilterLiterals = <<>>
    /\ files = <<>>
    /\ spawned = 0
    /\ wpc = [f \in DOMAIN disk |-> "unborn"]
    /\ sem = 0
    /\ results = <<>>
    /\ closed = FALSE
    /\ closerpc = "unborn"
    /\ wg = 0
    /\ pfSkipped = 0
    /\ allMatches = <<>>
    /\ ret = <<>>
    /\ stats = [FilesTotal |-> 0, PrefilterSkipped |-> 0, RegexSearched |-> 0]
    /\ searchErr = "nil"

SearchEntry == mainpc = "start" /\ SearchLocals

\* flags and surroundings of a plain run in the current project
DefaultArgs == [allProjects |-> FALSE, semantic |-> FALSE, hasPattern |-> TRUE]

DefaultEnv ==
    [baseExists |-> TRUE, projectDirExists |-> TRUE, ollama |-> TRUE, embedOk |-> TRUE,
     indexDir |-> TRUE]

\* regexSearch has been called by main on the directory of the project of
\* the working directory /a, which exists; nothing is indexed
DirectCall ==
    /\ args = DefaultArgs
    /\ env = DefaultEnv
    /\ cwd = <<"/", "a">>
    /\ mpc = "inregex"
    /\ searchPath = <<"/", "-", "a">>
    /\ exitCode = -1
    /\ indexes = <<>>
    /\ queryVec = <<>>
    /\ consulted = {}

(***************************************************************************)
(* main (main.go), search mode.                                            *)
(***************************************************************************)
\* resolveSearchPath: the projects directory itself, or the directory of the
\* project of the working directory, which must exist
resolveSearchPath(allProjects) ==
    IF allProjects THEN [path |-> <<>>, err |-> FALSE]
    ELSE IF ~env.projectDirExists THEN [path |-> <<>>, err |-> TRUE]
    ELSE [path |-> <<"/">> \o encodePath(cwd), err |-> FALSE]

\* os.Exit(code)
Exit(code) ==
    /\ exitCode' = code
    /\ mpc' = "exited"

\* lines 116-138: the pattern is required, the search path is resolved
MainParse ==
    /\ mpc = "parse"
    /\ IF ~args.hasPattern
       THEN Exit(2) /\ UNCHANGED searchPath
       ELSE IF resolveSearchPath(args.allProjects).err
       THEN Exit(2) /\ UNCHANGED searchPath
       ELSE /\ searchPath' = resolveSearchPath(args.allProjects).path
            /\ mpc' = IF args.semantic THEN "semantic" ELSE "regex"
            /\ UNCHANGED exitCode
    /\ UNCHANGED <<disk, now, pattern, opts, mainpc, re, prefilterLiterals, files, spawned,
                   wpc, sem, results, closed, closerpc, wg, pfSkipped, allMatches, ret,
                   stats, searchErr, indexVars, args, env, cwd, indexes, queryVec, consulted>>

\* lines 194-199: the pattern is normalized and regexSearch is called
MainCallRegex ==
    /\ mpc = "regex"
    /\ pattern' = normalizeBRE(pattern)
    /\ mainpc' = "start"
    /\ mpc' = "inregex"
    /\ UNCHANGED <<disk, now, opts, re, prefilterLiterals, files, spawned, wpc, sem, results,
                   closed, closerpc, wg, pfSkipped, allMatches, ret, stats, searchErr,
                   indexVars, args, env, cwd, searchPath, exitCode, indexes, queryVec, consulted>>

\* a main that reports a failed search as a search without matches
ExitForErrorAsEmpty(matches, err) ==
    IF Len(matches) = 0 THEN Exit(1) ELSE Exit(0)

\* the exit code main ends with for what a search returned: lines 200-203 and
\* 213-224 (171-174 and 182-190 for the semantic search)
ExitFor(matches, err) ==
    IF err # "nil" THEN Exit(2)
    ELSE IF Len(matches) = 0 THEN Exit(1)
    ELSE Exit(0)

\* lines 199-224: regexSearch has returned
MainRegexReturn ==
    /\ mpc = "inregex"
    /\ mainpc = "done"
    /\ ExitFor(ret, searchErr)
    /\ UNCHANGED <<disk, now, searchPath, pattern, opts, mainpc, re, prefilterLiterals, files,
                   spawned, wpc, sem, results, closed, closerpc, wg, pfSkipped, allMatches,
                   ret, stats, searchErr, indexVars, args, env, cwd, indexes, queryVec, consulted>>

(***************************************************************************)
(* The vector store (store.go) and the indexing pass runIndex (index.go),  *)
(* for one project.  The persisted index file is absent, holds the         *)
(* complete encoding of an Index, or (kind "partial") holds what os.Create *)
(* and an unfinished Encode leave: no bytes, or a prefix of an encoding,   *)
(* or (kind "corrupt") holds bytes of which Decode stores a part, kept in  *)
(* the field index, into its argument before it fails, or (kind            *)
(* "unreadable") cannot be opened.  An Index is [Entries, Files, Project], *)
(* Files mapping a path to LastModified; a map that holds nothing is the   *)
(* empty function whether it is nil or made.                               *)
(***************************************************************************)
previewLen == 200

Invocations == DOMAIN ipc

\* &Index{Files: make(map[string]FileMetadata), Project: project}
NewIndex(project) == [Entries |-> <<>>, Files |-> <<>>, Project |-> project]

\* the zero Index
EmptyIndex == NewIndex(<<>>)

\* the project whose indexing is examined
IndexedProjectName == <<"-", "a">>

\* a loadIndex that returns the Index it handed to Decode also when Decode
\* failed
loadIndexKeepDecoded(project, st) ==
    IF st.kind \in {"absent", "unreadable"} THEN NewIndex(project)
    ELSE [Entries |-> st.index.Entries, Files |-> st.index.Files,
          Project |-> IF st.index.Project = <<>> THEN project ELSE st.index.Project]

\* loadIndex: the decoded Index, or a new one when the file cannot be
\* opened (lines 58-61) or decoded (lines 64-67)
loadIndex(project, st) ==
    IF st.kind \in {"absent", "unreadable"} THEN NewIndex(project)
    ELSE IF st.kind \in {"partial", "corrupt"} THEN NewIndex(project)
    ELSE st.index

RemoveNothing(entries, fpath) == entries

\* an eviction that drops the entries of every file
RemoveEveryFile(entries, fpath) == <<>>

removeEntriesForFile(entries, fpath) == SelectSeq(entries, LAMBDA e : e.FilePath # fpath)

\* the IndexEntry appended for a message
NewEntry(msg, fpath) ==
    [MsgIndex |-> msg.MsgIndex, Role |-> msg.Role, Timestamp |-> msg.Timestamp,
     Preview |-> Truncate(msg.Text, previewLen), FilePath |-> fpath]

\* a pass that leaves the file out of idx.Files
SetFileNotRecorded(fs, fpath, mtime) == fs

\* idx.Files[fpath] = FileMetadata{...}
SetFile(fs, fpath, mtime) ==
    [x \in DOMAIN fs \cup {fpath} |-> IF x = fpath THEN mtime ELSE fs[x]]

\* the file the loop of lines 63-126 is at
CurFile(p) == fileList[p][cur[p] + 1]

UnchangedIfOlder(p, mtime) ==
    /\ CurFile(p) \in DOMAIN idx[p].Files
    /\ mtime < idx[p].Files[CurFile(p)]

\* lines 70-71: the file is recorded and not modified after the recorded time
Unchanged(p, mtime) ==
    /\ CurFile(p) \in DOMAIN idx[p].Files
    /\ ~(mtime > idx[p].Files[CurFile(p)])

\* the memory of an invocation before runIndex has assigned it, and after its
\* process has ended
NoMemory(p) ==
    /\ idx' = [idx EXCEPT ![p] = EmptyIndex]
    /\ fileList' = [fileList EXCEPT ![p] = <<>>]
    /\ cur' = [cur EXCEPT ![p] = 0]
    /\ info' = [info EXCEPT ![p] = 0]
    /\ messages' = [messages EXCEPT ![p] = <<>>]
    /\ msgpos' = [msgpos EXCEPT ![p] = 0]

\* main, lines 108-113, and runIndex, lines 24-27 and 38-39: an invocation
\* starts (in a fresh process) and exits at once when ollama is not reachable
StartIndex(p) ==
    /\ ipc[p] \in {"idle", "done", "exit", "killed"}
    /\ \E force \in BOOLEAN : reindexAll' = [reindexAll EXCEPT ![p] = force]
    /\ \E reachable \in BOOLEAN :
          ipc' = [ipc EXCEPT ![p] = IF reachable THEN "load" ELSE "exit"]
    /\ NoMemory(p)
    /\ totalNew' = [totalNew EXCEPT ![p] = 0]
    /\ totalSkipped' = [totalSkipped EXCEPT ![p] = 0]
    /\ embedCalls' = [embedCalls EXCEPT ![p] = 0]
    /\ embedErrors' = [embedErrors EXCEPT ![p] = 0]
    /\ UNCHANGED <<disk, now, searchVars, store, embedFailed>>

\* lines 48-61: load the index (or start empty when forced), find the files
LoadAndWalk(p) ==
    /\ ipc[p] = "load"
    /\ idx' = [idx EXCEPT ![p] = IF reindexAll[p] THEN NewIndex(IndexedProjectName)
                                 ELSE loadIndex(IndexedProjectName, store)]
    /\ fileList' = [fileList EXCEPT ![p] = [k \in 1..Cardinality(DOMAIN disk) |-> k]]
    /\ cur' = [cur EXCEPT ![p] = 0]
    /\ ipc' = [ipc EXCEPT ![p] = "stat"]
    /\ UNCHANGED <<disk, now, searchVars, store, reindexAll, info, messages, msgpos,
                   totalNew, totalSkipped, embedCalls, embedErrors, embedFailed>>

\* lines 64-77: stat the file; skip it when unchanged, else evict its entries
StatFile(p) ==
    /\ ipc[p] = "stat"
    /\ cur[p] < Len(fileList[p])
    /\ LET mtime == disk[CurFile(p)].mtime IN
       IF Unchanged(p, mtime)
       THEN /\ totalSkipped' = [totalSkipped EXCEPT ![p] = @ + 1]
            /\ cur' = [cur EXCEPT ![p] = @ + 1]
            /\ UNCHANGED <<idx, info, ipc>>
       ELSE /\ idx' = [idx EXCEPT ![p].Entries =
                          IF CurFile(p) \in DOMAIN idx[p].Files
                          THEN removeEntriesForFile(@, CurFile(p)) ELSE @]
            /\ info' = [info EXCEPT ![p] = mtime]
            /\ ipc' = [ipc EXCEPT ![p] = "read"]
            /\ UNCHANGED <<totalSkipped, cur>>
    /\ UNCHANGED <<disk, now, searchVars, store, reindexAll, fileList, messages, msgpos,
                   totalNew, embedCalls, embedErrors, embedFailed>>

\* lines 80-88: read and parse the file; os.ReadFile may fail; a file that
\* cannot be read or holds no message is passed over
ReadFile(p) ==
    /\ ipc[p] = "read"
    /\ \E readErr \in BOOLEAN :
       LET file == disk[CurFile(p)]
           parsed == parseJSONL(CurFile(p), file.lines)
       IN IF readErr \/ ~file.readable \/ Len(parsed) = 0
          THEN /\ cur' = [cur EXCEPT ![p] = @ + 1]
               /\ ipc' = [ipc EXCEPT ![p] = "stat"]
               /\ UNCHANGED <<messages, msgpos>>
          ELSE /\ messages' = [messages EXCEPT ![p] = parsed]
               /\ msgpos' = [msgpos EXCEPT ![p] = 0]
               /\ ipc' = [ipc EXCEPT ![p] = "embed"]
               /\ UNCHANGED cur
    /\ UNCHANGED <<disk, now, searchVars, store, reindexAll, idx, fileList, info,
                   totalNew, totalSkipped, embedCalls, embedErrors, embedFailed>>

\* lines 93-119, one iteration: embed the message; append its entry, or print
\* the error when the call failed
EmbedMessage(p) ==
    /\ ipc[p] = "embed"
    /\ msgpos[p] < Len(messages[p])
    /\ embedCalls' = [embedCalls EXCEPT ![p] = @ + 1]
    /\ LET entry == NewEntry(messages[p][msgpos[p] + 1], CurFile(p)) IN
       \E ok \in BOOLEAN :
          IF ok
          THEN /\ idx' = [idx EXCEPT ![p].Entries = Append(@, entry)]
               /\ UNCHANGED <<embedErrors, embedFailed>>
          ELSE /\ embedErrors' = [embedErrors EXCEPT ![p] = @ + 1]
               /\ embedFailed' = embedFailed \cup {entry}
               /\ UNCHANGED idx
    /\ msgpos' = [msgpos EXCEPT ![p] = @ + 1]
    /\ UNCHANGED <<disk, now, searchVars, store, ipc, reindexAll, fileList, cur, info,
                   messages, totalNew, totalSkipped>>

\* lines 121-125: record the modification time that was observed
FinishFile(p) ==
    /\ ipc[p] = "embed"
    /\ msgpos[p] = Len(messages[p])
    /\ idx' = [idx EXCEPT ![p].Files = SetFile(@, CurFile(p), info[p])]
    /\ totalNew' = [totalNew EXCEPT ![p] = @ + 1]
    /\ cur' = [cur EXCEPT ![p] = @ + 1]
    /\ ipc' = [ipc EXCEPT ![p] = "stat"]
    /\ UNCHANGED <<disk, now, searchVars, store, reindexAll, fileList, info, messages,
                   msgpos, totalSkipped, embedCalls, embedErrors, embedFailed>>

\* saveIndex, line 77: os.Create truncates the index file; when it cannot
\* open the file, saveIndex returns the error, runIndex prints it (lines
\* 128-130) and the process ends
CreateIndexFile(p) ==
    /\ ipc[p] = "stat"
    /\ cur[p] = Len(fileList[p])
    /\ IF store.kind = "unreadable"
       THEN /\ ipc' = [ipc EXCEPT ![p] = "done"]
            /\ NoMemory(p)
            /\ UNCHANGED store
       ELSE /\ store' = [kind |-> "partial", index |-> EmptyIndex]
            /\ ipc' = [ipc EXCEPT ![p] = "encode"]
            /\ UNCHANGED <<idx, fileList, cur, info, messages, msgpos>>
    /\ UNCHANGED <<disk, now, searchVars, reindexAll, totalNew, totalSkipped, embedCalls,
                   embedErrors, embedFailed>>

\* saveIndex, line 83: the encoding is written and the file closed; lines
\* 131-134: runIndex prints the totals and the process ends
EncodeIndex(p) ==
    /\ ipc[p] = "encode"
    /\ store' = [kind |-> "index", index |-> idx[p]]
    /\ ipc' = [ipc EXCEPT ![p] = "done"]
    /\ NoMemory(p)
    /\ UNCHANGED <<disk, now, searchVars, reindexAll, totalNew, totalSkipped, embedCalls,
                   embedErrors, embedFailed>>

\* the process of a running invocation is killed
Crash(p) ==
    /\ ipc[p] \in {"load", "stat", "read", "embed", "encode"}
    /\ ipc' = [ipc EXCEPT ![p] = "killed"]
    /\ NoMemory(p)
    /\ UNCHANGED <<disk, now, searchVars, store, reindexAll, totalNew, totalSkipped,
                   embedCalls, embedErrors, embedFailed>>

\* the records the session writer appends
AppendChoices ==
    { [type |-> "user", timestamp |-> 1, message |-> "object", form |-> "string",
       blocks |-> <<[type |-> "text", text |-> <<"a">>]>>,
       data |-> [message |-> "absent", form |-> "none", blocks |-> <<>>]],
      [type |-> "assistant", timestamp |-> 2, message |-> "object", form |-> "string",
       blocks |-> <<[type |-> "text", text |-> <<"b">>]>>,
       data |-> [message |-> "absent", form |-> "none", blocks |-> <<>>]] }

\* the session writer appends a record to a session file; the write falls in
\* the clock tick of the file's modification time or in a later one
AppendLine(f) ==
    /\ Len(disk[f].lines) < MaxLines
    /\ \E line \in AppendChoices : \E tick \in {0, 1} :
          disk' = [disk EXCEPT ![f].lines = Append(@, line), ![f].mtime = @ + tick]
    /\ UNCHANGED <<now, searchVars, indexVars>>

NextIndex ==
    \/ \E p \in Invocations : StartIndex(p)
    \/ \E p \in Invocations : LoadAndWalk(p)
    \/ \E p \in Invocations : StatFile(p)
    \/ \E p \in Invocations : ReadFile(p)
    \/ \E p \in Invocations : EmbedMessage(p)
    \/ \E p \in Invocations : FinishFile(p)
    \/ \E p \in Invocations : CreateIndexFile(p)
    \/ \E p \in Invocations : EncodeIndex(p)
    \/ \E p \in Invocations : Crash(p)
    \/ \E f \in DOMAIN disk : AppendLine(f)

\* no invocation of runIndex has started; at most n invocations will run at
\* a time
IndexLocals(n) ==
    /\ ipc = [p \in 1..n |-> "idle"]
    /\ reindexAll = [p \in 1..n |-> FALSE]
    /\ idx = [p \in 1..n |-> EmptyIndex]
    /\ fileList = [p \in 1..n |-> <<>>]
    /\ cur = [p \in 1..n |-> 0]
    /\ info = [p \in 1..n |-> 0]
    /\ messages = [p \in 1..n |-> <<>>]
    /\ msgpos = [p \in 1..n |-> 0]
    /\ totalNew = [p \in 1..n |-> 0]
    /\ totalSkipped = [p \in 1..n |-> 0]
    /\ embedCalls = [p \in 1..n |-> 0]
    /\ embedErrors = [p \in 1..n |-> 0]
    /\ embedFailed = {}

\* no invocation of runIndex has started, no index is persisted
IndexEntry(n) ==
    /\ store = [kind |-> "absent", index |-> EmptyIndex]
    /\ IndexLocals(n)

(***************************************************************************)
(* semanticSearch (store.go).  The index directory is a sequence of index  *)
(* files [name, file] in name order, name the project and file what        *)
(* loadIndex reads.  A vector is a sequence of integers that are not       *)
(* negative; a similarity is held as [dot, den2], standing for the cosine  *)
(* dot / sqrt(den2), which float32 tells from 0.3 unless the two are       *)
(* within 2^-25 of one another.                                            *)
(***************************************************************************)
\* numerator and denominator of the minimum threshold 0.3
ThresholdNum == 3

ThresholdDen == 10

\* limit used when opts.MaxResults is not positive
defaultLimit == 10

RECURSIVE Dot(_, _)
Dot(a, b) == IF a = <<>> THEN 0 ELSE a[1] * b[1] + Dot(Tail(a), Tail(b))

cosineSimilarity(a, b) ==
    IF Len(a) # Len(b) \/ Len(a) = 0 THEN [dot |-> 0, den2 |-> 1]
    ELSE IF Dot(a, a) * Dot(b, b) = 0 THEN [dot |-> 0, den2 |-> 1]
    ELSE [dot |-> Dot(a, b), den2 |-> Dot(a, a) * Dot(b, b)]

\* a threshold that an entry scoring exactly 0.3 passes
AtOrAboveThreshold(sim) ==
    /\ sim.dot > 0
    /\ ThresholdDen * ThresholdDen * sim.dot * sim.dot >= ThresholdNum * ThresholdNum * sim.den2

\* line 438, sim > 0.3, for the similarity dot / sqrt(den2): the cosines of
\* the vectors examined are 0.3 or differ from it by 0.01 or more, so the
\* rounding to float32 of both sides of the comparison leaves its outcome
AboveThreshold(sim) ==
    /\ sim.dot > 0
    /\ ThresholdDen * ThresholdDen * sim.dot * sim.dot > ThresholdNum * ThresholdNum * sim.den2

\* less(i, j) of the sort.Slice call: the greater similarity first
MoreSimilar(a, b) ==
    /\ a.similarity.dot > 0
    /\ b.similarity.dot <= 0
       \/ a.similarity.dot * a.similarity.dot * b.similarity.den2
              > b.similarity.dot * b.similarity.dot * a.similarity.den2

RECURSIVE InsertCandidate(_, _)
InsertCandidate(s, x) ==
    IF s # <<>> /\ MoreSimilar(x, s[Len(s)])
    THEN Append(InsertCandidate(SubSeq(s, 1, Len(s) - 1), x), s[Len(s)])
    ELSE Append(s, x)

RECURSIVE SortCandidates(_)
SortCandidates(s) ==
    IF s = <<>> THEN <<>>
    ELSE InsertCandidate(SortCandidates(SubSeq(s, 1, Len(s) - 1)), s[Len(s)])

\* lines 411-414: the project directory passes the filter of the search path
UnderSearchPath(projectDir, path) == HasPrefix(projectDir, path) \/ projectDir = path

\* lines 402-417: the index file is loaded
Consults(f, path) == path = <<>> \/ UnderSearchPath(<<"/">> \o f.name, path)

\* lines 419-441: the entries of one index that pass the role filter, the
\* time filter and the threshold
CandidatesOf(index, qv, o, clock) ==
    LET passes(e) ==
            /\ o.Role = "both" \/ e.Role = o.Role
            /\ ~(o.MaxDays > 0 /\ e.Timestamp # 0
                 /\ e.Timestamp < clock - o.MaxDays * TicksPerDay)
            /\ AboveThreshold(cosineSimilarity(qv, e.Vector))
        kept == SelectSeq(index.Entries, passes)
    IN [k \in 1..Len(kept) |->
           [entry |-> kept[k], similarity |-> cosineSimilarity(qv, kept[k].Vector)]]

RECURSIVE CandidatesFrom(_, _, _, _, _, _)
\* the loop of lines 402-442 over the index files from the k-th on
CandidatesFrom(gobs, k, path, qv, o, clock) ==
    IF k > Len(gobs) THEN <<>>
    ELSE (IF Consults(gobs[k], path)
          THEN CandidatesOf(loadIndex(gobs[k].name, gobs[k].file), qv, o, clock)
          ELSE <<>>)
         \o CandidatesFrom(gobs, k + 1, path, qv, o, clock)

\* lines 484-509: the indices at which the conversion of an entry reads
\* allMsgs, n being len(allMsgs)
RehydrationReads(e, n, o) ==
    LET start == IF e.MsgIndex - o.Before < 0 THEN 0 ELSE e.MsgIndex - o.Before
        end == IF e.MsgIndex + o.After + 1 > n THEN n ELSE e.MsgIndex + o.After + 1
    IN (IF e.MsgIndex < n THEN {e.MsgIndex} ELSE {})
       \cup (IF o.Before > 0 THEN {j \in start..(e.MsgIndex - 1) : j < n} ELSE {})
       \cup (IF o.After > 0 THEN (e.MsgIndex + 1)..(end - 1) ELSE {})

\* a conversion that leaves the stored preview as the text of the Match
SemanticMatchPreviewOnly(c, fs, o) ==
    [Message |-> [Role |-> c.entry.Role, Type |-> c.entry.Role, Text |-> c.entry.Preview,
                  Timestamp |-> c.entry.Timestamp, FilePath |-> c.entry.FilePath,
                  MsgIndex |-> c.entry.MsgIndex],
     Similarity |-> c.similarity, ContextBefore |-> <<>>, ContextAfter |-> <<>>]

\* lines 463-515: the Match of a candidate, text and context read from the
\* session file when it can be read
SemanticMatch(c, fs, o) ==
    LET e == c.entry
        readable == e.FilePath \in DOMAIN fs /\ fs[e.FilePath].readable
        allMsgs == IF readable THEN parseJSONL(e.FilePath, fs[e.FilePath].lines) ELSE <<>>
        start == IF e.MsgIndex - o.Before < 0 THEN 0 ELSE e.MsgIndex - o.Before
        end == IF e.MsgIndex + o.After + 1 > Len(allMsgs) THEN Len(allMsgs)
               ELSE e.MsgIndex + o.After + 1
        upto == IF e.MsgIndex < Len(allMsgs) THEN e.MsgIndex ELSE Len(allMsgs)
    IN [Message |-> [Role |-> e.Role, Type |-> e.Role,
                     Text |-> IF readable /\ e.MsgIndex < Len(allMsgs)
                              THEN allMsgs[e.MsgIndex + 1].Text ELSE e.Preview,
                     Timestamp |-> e.Timestamp, FilePath |-> e.FilePath,
                     MsgIndex |-> e.MsgIndex],
        Similarity |-> c.similarity,
        ContextBefore |-> IF readable /\ o.Before > 0
                          THEN [j \in 1..(upto - start) |-> allMsgs[start + j]]
                          ELSE <<>>,
        ContextAfter |-> IF readable /\ o.After > 0 /\ e.MsgIndex + 1 < end
                         THEN Slice(allMsgs, e.MsgIndex + 1, end)
                         ELSE <<>>]

\* semanticSearch, lines 367-518
semanticSearch(path, o) ==
    IF ~env.ollama THEN [matches |-> <<>>, err |-> "ollama"]
    ELSE IF ~env.embedOk THEN [matches |-> <<>>, err |-> "embed"]
    ELSE IF ~env.indexDir THEN [matches |-> <<>>, err |-> "noindex"]
    ELSE LET candidates == CandidatesFrom(indexes, 1, path, queryVec, o, now)
             limit == IF o.MaxResults <= 0 THEN defaultLimit ELSE o.MaxResults
             top == Truncate(SortCandidates(candidates), limit)
         IN [matches |-> [k \in 1..Len(top) |-> SemanticMatch(top[k], disk, o)],
             err |-> "nil"]

\* main, line 170: semanticSearch is called and returns
SemanticSearchCall ==
    /\ mpc = "semantic"
    /\ ret' = semanticSearch(searchPath, opts).matches
    /\ searchErr' = semanticSearch(searchPath, opts).err
    /\ consulted' = IF semanticSearch(searchPath, opts).err # "nil" THEN {}
                    ELSE {indexes[k].name : k \in {j \in 1..Len(indexes) :
                                                     Consults(indexes[j], searchPath)}}
    /\ mpc' = "insemantic"
    /\ UNCHANGED <<disk, now, pattern, opts, mainpc, re, prefilterLiterals, files, spawned,
                   wpc, sem, results, closed, closerpc, wg, pfSkipped, allMatches, stats,
                   indexVars, args, env, cwd, searchPath, exitCode, indexes, queryVec>>

\* main, lines 171-191: the exit code for what semanticSearch returned
MainSemanticReturn ==
    /\ mpc = "insemantic"
    /\ ExitFor(ret, searchErr)
    /\ UNCHANGED <<disk, now, searchPath, pattern, opts, mainpc, re, prefilterLiterals, files,
                   spawned, wpc, sem, results, closed, closerpc, wg, pfSkipped, allMatches,
                   ret, stats, searchErr, indexVars, args, env, cwd, indexes, queryVec,
                   consulted>>

(***************************************************************************)
(* Inputs.                                                                 *)
(***************************************************************************)
\* a record without data.message
NoData == [message |-> "absent", form |-> "none", blocks |-> <<>>]

TextLine(type, ts, text) ==
    [type |-> type, timestamp |-> ts, message |-> "object", form |-> "string",
     blocks |-> <<[type |-> "text", text |-> text]>>, data |-> NoData]

BlocksLine(type, ts, texts) ==
    [type |-> type, timestamp |-> ts, message |-> "object", form |-> "blocks",
     blocks |-> [k \in 1..Len(texts) |-> [type |-> "text", text |-> texts[k]]],
     data |-> NoData]

File(lines, mtime) == [readable |-> TRUE, mtime |-> mtime, lines |-> lines]

DefaultOpts == [Role |-> "both", MaxResults |-> 20, MaxDays |-> 7, Before |-> 0, After |-> 0]

\* the session files the concurrent searches run on: texts "a" and "b",
\* timestamps 1 and 2
FileChoices ==
    { <<TextLine("user", 1, <<"b">>)>>,
      <<TextLine("user", 1, <<"a">>)>>,
      <<TextLine("user", 2, <<"a">>)>>,
      <<TextLine("user", 1, <<"a">>), TextLine("assistant", 2, <<"a">>)>> }

\* the search of up to MaxFiles files for the pattern a, with a result limit
\* that does or does not cut the list
Init ==
    /\ \E n \in 1..MaxFiles : \E c \in [1..n -> FileChoices] :
           disk = [f \in 1..n |-> File(c[f], 0)]
    /\ now = 0
    /\ pattern = <<"a">>
    /\ \E limit \in {2, 20} : opts = [DefaultOpts EXCEPT !.MaxResults = limit]
    /\ SearchEntry
    /\ DirectCall
    /\ IndexEntry(1)

Spec == Init /\ [][Next]_vars

\* the search of PoolFiles files, more than the semaphore admits at once
InitPool ==
    /\ disk = [f \in 1..PoolFiles |->
                 File(<<TextLine("user", 1, IF f = 1 THEN <<"a">> ELSE <<"b">>)>>, 0)]
    /\ now = 0
    /\ pattern = <<"a">>
    /\ opts = DefaultOpts
    /\ SearchEntry
    /\ DirectCall
    /\ IndexEntry(1)

SpecPool == InitPool /\ [][Next]_vars

\* the patterns of the single-file searches
PatternChoices ==
    { <<"a", "b", "c">>,                                    \* abc
      <<"A", "b">>,                                         \* Ab
      <<"(", "a", "|", "b", ")">>,                          \* (a|b)
      <<"a", "b", "|", "c">>,                               \* ab|c
      <<"(", "?", ":", "a", "|", "b", ")">>,                \* (?:a|b)
      <<"(", "?", "i", ":", "a", "|", "b", ")">>,           \* (?i:a|b)
      <<".", "*">>,                                         \* .*
      <<"(", "a", "b", "|", ".", "*", ")">>,                \* (ab|.*)
      <<"a", ".", "c">>,                                    \* a.c
      <<"a", "b", "?", "c">>,                               \* ab?c
      <<"a", "b", "*", "c">>,                               \* ab*c
      <<"\\", "d", "+", "a">>,                              \* \d+a
      <<"[", "a", "b", "]", "c">>,                          \* [ab]c
      <<"(", "a", "|", "b", ")", "(", "c", "|", "a", ")">>, \* (a|b)(c|a)
      <<"a", " ", "b">> }                                   \* a b

\* patterns that begin with "(" and end with ")", and patterns without
\* enclosing parentheses
GroupPatternChoices ==
    { <<"(", "a", "|", "b", ")">>,                                    \* (a|b)
      <<"(", "?", ":", "a", "|", "b", ")">>,                          \* (?:a|b)
      <<"(", "?", "i", ":", "a", "|", "b", ")">>,                     \* (?i:a|b)
      <<"(", "a", "|", "b", ")", "(", "c", "|", "a", ")">>,           \* (a|b)(c|a)
      <<"a", "b", "c">>,                                              \* abc
      <<"(", "a", "b", "c", ")">>,                                    \* (abc)
      <<"(", "(", "a", ")", ")">>,                                    \* ((a))
      <<"(", "a", ")", "|", "(", "b", ")">>,                          \* (a)|(b)
      <<"(", "[", ")", "]", "a", ")">>,                               \* ([)]a)
      <<"(", "[", "(", "]", "a", ")", "|", "(", "b", ")">> }          \* ([(]a)|(b)

\* texts of at most n bytes
TextsUpTo(n) == UNION {TextsOfLen(k) : k \in 0..n}

\* files of one record: a string content of at most MaxTextLen bytes, or two
\* text blocks whose joined text has at most MaxTextLen bytes
OneRecordFiles ==
    {<<TextLine("user", 1, t)>> : t \in TextsUpTo(MaxTextLen)}
    \cup {<<BlocksLine("user", 1, <<b[1], b[2]>>)>> :
            b \in {c \in TextsUpTo(MaxTextLen - 1) \X TextsUpTo(MaxTextLen - 1) :
                     Len(c[1]) + 1 + Len(c[2]) <= MaxTextLen}}

\* the search of one file of one record, for each pattern
InitOneFile ==
    /\ \E lines \in OneRecordFiles : disk = [f \in 1..1 |-> File(lines, 0)]
    /\ now = 0
    /\ pattern \in PatternChoices
    /\ opts = DefaultOpts
    /\ SearchEntry
    /\ DirectCall
    /\ IndexEntry(1)

SpecOneFile == InitOneFile /\ [][Next]_vars

\* patterns in which a parenthesis or a pipe stands in a character class
\* (main rewrites the escaped ones with normalizeBRE before the search)
BracketPatternChoices ==
    { <<"a", "[", "(", "]", "|", ".", "*">>,                \* a[(]|.*
      <<"[", "(", "]", "a", "b", "|", ".", "*">>,           \* [(]ab|.*
      <<"a", "[", "|", "]", "b">>,                          \* a[|]b
      <<"a", "[", ")", "]", "|", "b">> }                    \* a[)]|b

\* the search of one file of one record of at most one byte, for each pattern
InitBranches ==
    /\ \E t \in TextsUpTo(1) : disk = [f \in 1..1 |-> File(<<TextLine("user", 1, t)>>, 0)]
    /\ now = 0
    /\ pattern \in PatternChoices \cup BracketPatternChoices
    /\ opts = DefaultOpts
    /\ SearchEntry
    /\ DirectCall
    /\ IndexEntry(1)

SpecBranches == InitBranches /\ [][Next]_vars

\* the records of the parsed file: a role or another type, the timestamp
\* absent or present, the text empty or not
RecordChoices ==
    {TextLine(type, ts, text) : type \in {"user", "assistant", "summary"},
                                ts \in {0, 1},
                                text \in {<<>>, <<"a">>, <<"b">>}}

\* the sequences of at most n records
RECURSIVE RecordsUpTo(_)
RecordsUpTo(n) ==
    IF n = 0 THEN {<<>>}
    ELSE RecordsUpTo(n - 1)
         \cup {Append(ls, r) : ls \in {x \in RecordsUpTo(n - 1) : Len(x) = n - 1},
                               r \in RecordChoices}

\* the contents of a message object: a string, a string of one space, an
\* array of two text blocks and of none, no content
ContentChoices(t) ==
    { [form |-> "string", blocks |-> <<[type |-> "text", text |-> t]>>],
      [form |-> "string", blocks |-> <<[type |-> "text", text |-> <<" ">>]>>],
      [form |-> "blocks", blocks |-> <<[type |-> "text", text |-> t],
                                       [type |-> "text", text |-> t]>>],
      [form |-> "blocks", blocks |-> <<>>],
      [form |-> "none", blocks |-> <<>>] }

\* records whose message field is an object, null, another JSON value or
\* absent, with and without data.message; the texts under message are made
\* of "a", those under data.message of "b"
ExtractRecordChoices ==
    { [type |-> type, timestamp |-> 1, message |-> m,
       form |-> IF m = "object" THEN c.form ELSE "none",
       blocks |-> IF m = "object" THEN c.blocks ELSE <<>>,
       data |-> [message |-> dm,
                 form |-> IF dm = "object" THEN d.form ELSE "none",
                 blocks |-> IF dm = "object" THEN d.blocks ELSE <<>>]] :
      type \in {"user", "summary"},
      m \in {"object", "null", "other", "absent"},
      c \in ContentChoices(<<"a">>),
      dm \in {"object", "other", "absent"},
      d \in ContentChoices(<<"b">>) }

\* the search of one file of one such record for the pattern "."
InitExtract ==
    /\ \E r \in ExtractRecordChoices : disk = [f \in 1..1 |-> File(<<r>>, 0)]
    /\ now = 0
    /\ pattern = <<".">>
    /\ opts = DefaultOpts
    /\ SearchEntry
    /\ DirectCall
    /\ IndexEntry(1)

SpecExtract == InitExtract /\ [][Next]_vars

\* the search, at a clock of 0 to 3 ticks and with a max age of 0 to 2 days,
\* of one file that holds a match and was last modified at or before the
\* time of the search
InitAge ==
    /\ now \in 0..3
    /\ \E mtime \in 0..now : disk = [f \in 1..1 |-> File(<<TextLine("user", 1, <<"a">>)>>, mtime)]
    /\ pattern = <<"a">>
    /\ \E days \in 0..2 : opts = [DefaultOpts EXCEPT !.MaxDays = days]
    /\ SearchEntry
    /\ DirectCall
    /\ IndexEntry(1)

SpecAge == InitAge /\ [][Next]_vars

\* the search of one file of at most MaxRecords records for the pattern a,
\* without context and with two messages of context before and one after
InitParse ==
    /\ \E lines \in RecordsUpTo(MaxRecords) : disk = [f \in 1..1 |-> File(lines, 0)]
    /\ now = 0
    /\ pattern = <<"a">>
    /\ \E c \in {<<0, 0>>, <<2, 1>>} :
           opts = [DefaultOpts EXCEPT !.Before = c[1], !.After = c[2]]
    /\ SearchEntry
    /\ DirectCall
    /\ IndexEntry(1)

SpecParse == InitParse /\ [][Next]_vars

\* working directories: two that differ by a separator and a dash, one whose
\* name begins with the name of another, one below another
CwdChoices ==
    { <<"/", "a">>,
      <<"/", "a", "b">>,
      <<"/", "a", "/", "b">>,
      <<"/", "a", "-", "b">>,
      <<"/", "b">> }

\* the patterns given on the command line: valid, invalid, and in the basic
\* syntax that normalizeBRE rewrites
CommandPatternChoices ==
    { <<"a">>,
      <<"c">>,
      <<"(">>,
      <<"a", "\\", "|", "c">>,
      <<"a", "\\", "(">> }

\* a regex search from the command line: with or without a pattern, in the
\* project of the working directory or in all projects, the directories
\* existing or not
InitMain ==
    /\ \E c \in FileChoices : disk = [f \in 1..1 |-> File(c, 0)]
    /\ now = 0
    /\ pattern \in CommandPatternChoices
    /\ opts = DefaultOpts
    /\ mainpc = "uncalled"
    /\ SearchLocals
    /\ IndexEntry(1)
    /\ \E all \in BOOLEAN, given \in BOOLEAN :
           args = [allProjects |-> all, semantic |-> FALSE, hasPattern |-> given]
    /\ \E base \in BOOLEAN, dir \in BOOLEAN :
           env = [DefaultEnv EXCEPT !.baseExists = base, !.projectDirExists = dir]
    /\ cwd \in CwdChoices
    /\ mpc = "parse"
    /\ searchPath = <<>>
    /\ exitCode = -1
    /\ indexes = <<>>
    /\ queryVec = <<>>
    /\ consulted = {}

NextMain ==
    \/ MainParse
    \/ MainCallRegex
    \/ MainRegexReturn
    \/ Next

SpecMain == InitMain /\ [][NextMain]_vars

\* the embedding of the query
QueryVector == <<1, 0, 0, 0, 0>>

\* the vectors of the entries, each but the last two of norm 100 in units of
\* 1/100: cosine to the query 1, 0.31, 0.30, 0.29, -1, and 0 because the
\* lengths differ
VectorChoices ==
    { <<100, 0, 0, 0, 0>>,
      <<31, 95, 3, 2, 1>>,
      <<30, 95, 7, 5, 1>>,
      <<29, 95, 11, 3, 2>>,
      <<-1, 0, 0, 0, 0>>,
      <<1, 0>> }

\* an index file holding one entry for the first message of the session
\* file, or left truncated by an interrupted save
IndexFileChoices(name) ==
    {[kind |-> "index",
      index |-> [Entries |-> <<[MsgIndex |-> 0, Role |-> "user", Timestamp |-> 1,
                                Preview |-> <<"a">>, FilePath |-> 1, Vector |-> v]>>,
                 Files |-> <<0>>, Project |-> name]] : v \in VectorChoices}
    \cup {[kind |-> "partial", index |-> EmptyIndex]}

\* a semantic search from the command line, the indexes of the projects of
\* the working directories /a, /ab and /b being persisted
InitSemantic ==
    /\ \E c \in FileChoices : disk = [f \in 1..1 |-> File(c, 0)]
    /\ now = 0
    /\ pattern = <<"a">>
    /\ \E limit \in {1, 20} : opts = [DefaultOpts EXCEPT !.MaxResults = limit]
    /\ mainpc = "uncalled"
    /\ SearchLocals
    /\ IndexEntry(1)
    /\ \E all \in BOOLEAN :
           args = [allProjects |-> all, semantic |-> TRUE, hasPattern |-> TRUE]
    /\ \E o \in BOOLEAN, e \in BOOLEAN, d \in BOOLEAN, pd \in BOOLEAN :
           env = [DefaultEnv EXCEPT !.ollama = o, !.embedOk = e, !.indexDir = d,
                                    !.projectDirExists = pd]
    /\ cwd \in {<<"/", "a">>, <<"/", "a", "b">>, <<"/", "b">>}
    /\ mpc = "parse"
    /\ searchPath = <<>>
    /\ exitCode = -1
    /\ \E fa \in IndexFileChoices(<<"-", "a">>), fab \in IndexFileChoices(<<"-", "a", "b">>),
          fb \in IndexFileChoices(<<"-", "b">>) :
           indexes = <<[name |-> <<"-", "a">>, file |-> fa],
                       [name |-> <<"-", "a", "b">>, file |-> fab],
                       [name |-> <<"-", "b">>, file |-> fb]>>
    /\ queryVec = QueryVector
    /\ consulted = {}

NextSemantic ==
    \/ MainParse
    \/ SemanticSearchCall
    \/ MainSemanticReturn

SpecSemantic == InitSemantic /\ [][NextSemantic]_vars

\* a semantic search in the project of /a, whose index holds one entry made
\* for the message at an ordinal index of a session file that has since been
\* rewritten, emptied or made unreadable
InitRehydrate ==
    /\ \E lines \in FileChoices \cup {<<>>} : \E r \in BOOLEAN :
           disk = [f \in 1..1 |-> [File(lines, 0) EXCEPT !.readable = r]]
    /\ now = 0
    /\ pattern = <<"a">>
    /\ \E c \in {<<0, 0>>, <<2, 1>>, <<1, 2>>} :
           opts = [DefaultOpts EXCEPT !.Before = c[1], !.After = c[2]]
    /\ mainpc = "uncalled"
    /\ SearchLocals
    /\ IndexEntry(1)
    /\ args = [allProjects |-> FALSE, semantic |-> TRUE, hasPattern |-> TRUE]
    /\ env = DefaultEnv
    /\ cwd = <<"/", "a">>
    /\ mpc = "parse"
    /\ searchPath = <<>>
    /\ exitCode = -1
    /\ \E ordinal \in 0..3 :
           indexes = <<[name |-> <<"-", "a">>,
                        file |-> [kind |-> "index",
                                  index |-> [Entries |-> <<[MsgIndex |-> ordinal,
                                                            Role |-> "user",
                                                            Timestamp |-> 1,
                                                            Preview |-> <<"c">>,
                                                            FilePath |-> 1,
                                                            Vector |-> QueryVector]>>,
                                             Files |-> <<0>>,
                                             Project |-> <<"-", "a">>]]]>>
    /\ queryVec = QueryVector
    /\ consulted = {}

SpecRehydrate == InitRehydrate /\ [][NextSemantic]_vars

\* a search of either kind from the command line
InitCli == InitMain \/ InitSemantic

NextCli == NextMain \/ SemanticSearchCall \/ MainSemanticReturn

SpecCli == InitCli /\ [][NextCli]_vars

\* a project whose session files start empty
IndexedProject ==
    /\ disk = [f \in 1..NumSessionFiles |-> File(<<>>, 0)]
    /\ now = 0
    /\ pattern = <<>>
    /\ opts = DefaultOpts
    /\ SearchEntry
    /\ DirectCall

\* the entry an indexing pass stored for the first message of a session file
StoredEntry ==
    [MsgIndex |-> 0, Role |-> "user", Timestamp |-> 1, Preview |-> <<"a">>, FilePath |-> 1]

\* the index file of the project before a pass: absent, not openable,
\* truncated, corrupt after an entry or after the entries and the file
\* records, or complete
StoreChoices ==
    { [kind |-> "absent", index |-> EmptyIndex],
      [kind |-> "unreadable", index |-> EmptyIndex],
      [kind |-> "partial", index |-> EmptyIndex],
      [kind |-> "corrupt",
       index |-> [Entries |-> <<StoredEntry>>, Files |-> <<>>, Project |-> <<>>]],
      [kind |-> "corrupt",
       index |-> [Entries |-> <<StoredEntry>>, Files |-> <<0>>,
                  Project |-> <<"-", "b">>]],
      [kind |-> "index",
       index |-> [Entries |-> <<StoredEntry>>, Files |-> <<0>>,
                  Project |-> IndexedProjectName]] }

\* indexing passes over a project of one session file whose index file is in
\* any of these conditions
InitLoad ==
    /\ disk = [f \in 1..1 |-> File(<<TextLine("user", 1, <<"a">>)>>, 0)]
    /\ now = 0
    /\ pattern = <<>>
    /\ opts = DefaultOpts
    /\ SearchEntry
    /\ DirectCall
    /\ store \in StoreChoices
    /\ IndexLocals(1)

SpecLoad == InitLoad /\ [][NextIndex]_vars

\* indexing passes that follow one another
InitIndex == IndexedProject /\ IndexEntry(NumInvocations)

SpecIndex == InitIndex /\ [][NextIndex]_vars

\* indexing passes started while another is running
InitRace == IndexedProject /\ IndexEntry(RaceInvocations)

SpecRace == InitRace /\ [][NextIndex]_vars

\* the path of a session file that was indexed and has since been deleted
GonePath == NumSessionFiles + 1

\* the index a pass saved when every session file and the file since deleted
\* held one message, at the modification time 0
SavedIndex ==
    [Entries |-> [k \in 1..GonePath |-> [StoredEntry EXCEPT !.FilePath = k]],
     Files |-> [f \in 1..GonePath |-> 0],
     Project |-> IndexedProjectName]

\* indexing passes over a project that has been indexed, one session file of
\* which has been deleted since
InitFrame ==
    /\ disk = [f \in 1..NumSessionFiles |-> File(<<TextLine("user", 1, <<"a">>)>>, 0)]
    /\ now = 0
    /\ pattern = <<>>
    /\ opts = DefaultOpts
    /\ SearchEntry
    /\ DirectCall
    /\ store = [kind |-> "index", index |-> SavedIndex]
    /\ IndexLocals(NumInvocations)

SpecFrame == InitFrame /\ [][NextIndex]_vars

\* the search of one file of one record of at most one byte, for each of
\* the patterns with and without enclosing parentheses
InitStrip ==
    /\ \E t \in TextsUpTo(1) : disk = [f \in 1..1 |-> File(<<TextLine("user", 1, t)>>, 0)]
    /\ now = 0
    /\ pattern \in GroupPatternChoices
    /\ opts = DefaultOpts
    /\ SearchEntry
    /\ DirectCall
    /\ IndexEntry(1)

SpecStrip == InitStrip /\ [][Next]_vars

(***************************************************************************)
(* Properties.                                                             *)
(***************************************************************************)
\* the parsed messages of the file at path f
MessagesOf(f) == parseJSONL(f, disk[f].lines)

\* what the worker of file f obtains from searchFileTracked
Produced(f) == searchFileTracked(f, disk[f], re, prefilterLiterals, opts).matches

RECURSIVE ProducedFrom(_)
\* the matches of files k.. of the enumeration, in enumeration order
ProducedFrom(k) ==
    IF k > Len(files) THEN <<>> ELSE Produced(files[k]) \o ProducedFrom(k + 1)

SeqToSet(s) == {s[i] : i \in 1..Len(s)}

\* C1 (as claimed): whenever literals were extracted and some parsed message
\* of a file matches the pattern, the raw bytes of the file pass the
\* prefilter.
C1_NoFalseNegative ==
    mainpc # "start" =>
        \A f \in DOMAIN disk :
            ( /\ prefilterLiterals # <<>>
              /\ \E i \in 1..Len(MessagesOf(f)) : MatchString(re, MessagesOf(f)[i].Text) )
            => prefilterMatch(RawData(disk[f].lines), prefilterLiterals)

\* C2 (as claimed): the returned list is the same for every interleaving of
\* the workers, namely the one returned when the workers deliver their
\* matches in the order of the file enumeration.
C2_OrderIndependent ==
    mainpc = "done" => ret = Truncate(SortSlice(ProducedFrom(1)), opts.MaxResults)

\* C8: the results channel is closed only after every worker has finished,
\* and the list that is about to be sorted holds every match of every
\* worker, each once.
C8_FullJoin ==
    /\ closed => \A k \in 1..Len(files) : wpc[files[k]] = "done"
    /\ mainpc \in {"sort", "done"} =>
          /\ SeqToSet(allMatches) = SeqToSet(ProducedFrom(1))
          /\ Len(allMatches) = Len(ProducedFrom(1))
          /\ \A k \in 1..Len(files) : wpc[files[k]] = "done"

C8_Witness ==
    /\ mainpc = "sort"
    /\ \E i, j \in 1..Len(allMatches) :
          allMatches[i].Message.FilePath > allMatches[j].Message.FilePath /\ i < j

\* the workers that hold a semaphore slot
Holding == {f \in DOMAIN disk : wpc[f] \in {"search", "exit"}}

\* C9: at most 8 workers hold a semaphore slot at any time.
C9_PoolCeiling == Cardinality(Holding) <= 8 /\ sem = Cardinality(Holding)

C9_Witness ==
    /\ Cardinality(Holding) = 8
    /\ \E f \in DOMAIN disk : wpc[f] = "acquire"

Min(a, b) == IF a < b THEN a ELSE b

\* C10: the returned list is in descending timestamp order, has
\* min(MaxResults, number of matches) elements, all of them matches of the
\* workers, and no match that was cut off is newer than a returned one.
C10_SortedAndLimited ==
    mainpc = "done" =>
        /\ \A i, j \in 1..Len(ret) :
              i < j => ret[i].Message.Timestamp >= ret[j].Message.Timestamp
        /\ Len(ret) = Min(opts.MaxResults, Len(ProducedFrom(1)))
        /\ SeqToSet(ret) \subseteq SeqToSet(ProducedFrom(1))
        /\ \A m \in SeqToSet(ProducedFrom(1)) \ SeqToSet(ret) :
              \A i \in 1..Len(ret) : ret[i].Message.Timestamp >= m.Message.Timestamp

C10_Witness ==
    /\ mainpc = "done"
    /\ Len(ProducedFrom(1)) > opts.MaxResults
    /\ ret[1].Message.Timestamp > ret[Len(ret)].Message.Timestamp
    /\ allMatches[1].Message.Timestamp < allMatches[Len(allMatches)].Message.Timestamp

\* the invocations that have loaded the index and have not yet saved it
InProgress == {p \in Invocations : ipc[p] \in {"stat", "read", "embed", "encode"}}

\* C3 (as claimed): an invocation that starts while another is in progress
\* exits without loading the index, so at most one invocation at a time is
\* between its load and the end of its save.
C3_OneIndexerAtATime == Cardinality(InProgress) <= 1

\* the message that entry e was made from is still a message of its file
StillInFile(e) ==
    LET ms == parseJSONL(e.FilePath, disk[e.FilePath].lines) IN
    /\ e.MsgIndex < Len(ms)
    /\ NewEntry(ms[e.MsgIndex + 1], e.FilePath) = e

\* C4 (as claimed): once a non-forced pass in which no embedding call failed
\* and every file was either skipped or indexed has ended, every message
\* whose embedding failed in an earlier pass, and that is still in its file,
\* has its entry in the saved index.
C4_RerunRetries ==
    \A p \in Invocations :
        ( /\ ipc[p] = "done"
          /\ ~reindexAll[p]
          /\ embedErrors[p] = 0
          /\ totalSkipped[p] + totalNew[p] = Cardinality(DOMAIN disk) ) =>
            \A e \in embedFailed :
                StillInFile(e) => e \in SeqToSet(store.index.Entries)

\* C5 (as claimed): the persisted index file always holds a complete Index
\* (or does not exist yet), never an empty or partial encoding.
C5_AtomicSave == store.kind # "partial"

\* the step of invocation p is its StatFile step
StatStep(p) ==
    /\ ipc[p] = "stat"
    /\ cur[p] < Len(fileList[p])
    /\ ipc'[p] \in {"stat", "read"}
    /\ cur'[p] # cur[p] \/ ipc'[p] = "read"

\* C6: in a non-forced pass, the step that examines a file whose modification
\* time is not later than the recorded one leaves the entries and the
\* metadata as they are, makes no embedding call, counts the file as skipped
\* and not as indexed, and goes on to the next file.
C6_SkipUnchanged ==
    [][\A p \in Invocations :
         ( /\ StatStep(p)
           /\ ~reindexAll[p]
           /\ CurFile(p) \in DOMAIN idx[p].Files
           /\ disk[CurFile(p)].mtime <= idx[p].Files[CurFile(p)] )
         => /\ idx'[p] = idx[p]
            /\ embedCalls'[p] = embedCalls[p]
            /\ totalSkipped'[p] = totalSkipped[p] + 1
            /\ totalNew'[p] = totalNew[p]
            /\ ipc'[p] = "stat"
            /\ cur'[p] = cur[p] + 1]_vars

\* a recorded file with entries has just been skipped
C6_Witness ==
    \E p \in Invocations :
        /\ ipc[p] = "stat"
        /\ ~reindexAll[p]
        /\ totalSkipped[p] = 1
        /\ cur[p] = 1
        /\ embedCalls[p] = 0
        /\ idx[p].Entries # <<>>

\* the entries of file fpath, in index order
EntriesFor(index, fpath) == SelectSeq(index.Entries, LAMBDA e : e.FilePath = fpath)

\* the file invocation p is at was recorded with an earlier modification
\* time than the one p observed
ModifiedSinceRecorded(p) ==
    /\ CurFile(p) \in DOMAIN idx[p].Files
    /\ info[p] > idx[p].Files[CurFile(p)]

\* the step of StatFile on a recorded file evicts exactly that file's entries
EvictsOnModification(p) ==
    ( /\ StatStep(p)
      /\ CurFile(p) \in DOMAIN idx[p].Files
      /\ disk[CurFile(p)].mtime > idx[p].Files[CurFile(p)] )
    => /\ EntriesFor(idx'[p], CurFile(p)) = <<>>
       /\ \A g \in DOMAIN disk :
             g # CurFile(p) => EntriesFor(idx'[p], g) = EntriesFor(idx[p], g)

\* one entry per message of parsed, in order, and the observed time recorded
ReplacedBy(p, parsed) ==
    /\ EntriesFor(idx'[p], CurFile(p)) =
          [k \in 1..Len(parsed) |-> NewEntry(parsed[k], CurFile(p))]
    /\ CurFile(p) \in DOMAIN idx'[p].Files
    /\ idx'[p].Files[CurFile(p)] = info[p]

NoLiteralIn(f) ==
    \A k \in 1..Len(prefilterLiterals) :
        ~Contains(ToLower(RawData(disk[f].lines)), ToLower(prefilterLiterals[k]))

\* the matches of the file at f among the matches of the sequence ms
MatchesOfFile(ms, f) == SelectSeq(ms, LAMBDA m : m.Message.FilePath = f)

\* C11: when the extracted literal list is not empty, a file that holds none
\* of the literals contributes no match (none is sent, merged or returned),
\* and once its worker has searched it, it has been counted as
\* prefilter-skipped; the returned stats count exactly those files.
C11_RejectedBeforeParsing ==
    (mainpc # "start" /\ prefilterLiterals # <<>>) =>
        /\ \A f \in DOMAIN disk :
               NoLiteralIn(f) =>
                   /\ \A k \in 1..Len(results) : MatchesOfFile(results[k].matches, f) = <<>>
                   /\ MatchesOfFile(allMatches, f) = <<>>
                   /\ MatchesOfFile(ret, f) = <<>>
        /\ pfSkipped = Cardinality({f \in DOMAIN disk :
                                      wpc[f] \in {"exit", "done"} /\ NoLiteralIn(f)})
        /\ mainpc = "done" =>
               stats.PrefilterSkipped =
                   Cardinality({f \in SeqToSet(files) : NoLiteralIn(f)})

\* a search has returned in which the file has a message and was rejected by
\* the prefilter
C11_Witness ==
    /\ mainpc = "done"
    /\ prefilterLiterals # <<>>
    /\ NoLiteralIn(1)
    /\ MessagesOf(1) # <<>>
    /\ stats.PrefilterSkipped = 1
    /\ ret = <<>>

RECURSIVE BranchesFrom(_, _)
\* the branches of the alternation that the expression p has from position i
\* on, as regexp.Compile reads them: a pipe or a parenthesis in a character
\* class is a literal
BranchesFrom(p, i) ==
    LET a == ParseCat(p, i) IN
    IF a.n <= Len(p) /\ p[a.n] = "|"
    THEN <<SubSeq(p, i, a.n - 1)>> \o BranchesFrom(p, a.n + 1)
    ELSE <<SubSeq(p, i, a.n - 1)>>

\* the top-level alternation branches of p, a group that encloses the whole
\* of p being opened first
TopLevelBranches(p) ==
    IF Len(p) >= 2 /\ p[1] = "(" /\ ParseAtom(p, 1).n = Len(p) + 1
    THEN LET from == IF SubSeq(p, 2, 3) = <<"?", ":">> THEN 4
                     ELSE IF SubSeq(p, 2, 4) = <<"?", "i", ":">> THEN 5
                     ELSE 2
         IN BranchesFrom(SubSeq(p, from, Len(p) - 1), 1)
    ELSE BranchesFrom(p, 1)

\* some top-level branch of the pattern yields no literal
SomeBranchWithoutLiteral ==
    \E k \in 1..Len(TopLevelBranches(pattern)) :
        BranchLiteral(TopLevelBranches(pattern)[k]) = <<>>

\* the list the claim attributes to the pattern
ClaimedLiterals ==
    IF SomeBranchWithoutLiteral THEN <<>>
    ELSE [k \in 1..Len(TopLevelBranches(pattern)) |->
             ToLower(BranchLiteral(TopLevelBranches(pattern)[k]))]

\* C12 (as claimed, first part): when some top-level alternation branch of
\* the pattern yields no literal, the extracted list is the disabled result,
\* never a list of the other branches' literals.  (The second part, one
\* lowercased literal per top-level branch in branch order otherwise, is
\* prefilterLiterals = ClaimedLiterals.)
C12_NoPartialList ==
    (mainpc # "start" /\ SomeBranchWithoutLiteral) => prefilterLiterals = <<>>

\* the "(" that opens the pattern is closed by the ")" that ends it: the
\* group read from the first byte is the whole pattern
TrueOuterPair(p) ==
    /\ Len(p) >= 2
    /\ p[1] = "("
    /\ ParseAtom(p, 1).n = Len(p) + 1

\* the pattern without its first and last byte and without a leading ?: or
\* ?i: of what is between them
WithoutOuterPair(p) ==
    LET inner == Slice(p, 1, Len(p) - 1) IN
    IF HasPrefix(inner, <<"?", ":">>) THEN Slice(inner, 2, Len(inner))
    ELSE IF HasPrefix(inner, <<"?", "i", ":">>) THEN Slice(inner, 3, Len(inner))
    ELSE inner

\* C22 (as claimed): stripOuterGroup removes the first and the last byte of
\* the pattern, and a leading ?: or ?i:, exactly when the opening parenthesis
\* of the pattern is closed by its final parenthesis, and returns every other
\* pattern unchanged.
C22_StripsExactlyTrueOuterPair ==
    mainpc # "start" =>
        stripOuterGroup(pattern) =
            IF TrueOuterPair(pattern) THEN WithoutOuterPair(pattern) ELSE pattern

\* the records of the file at f that parseJSONL keeps: a role and a text
KeptRecords(f) ==
    SelectSeq(disk[f].lines,
              LAMBDA l : l.type \in {"user", "assistant"} /\ extractText(l) # <<>>)

\* kept record k has the timestamp and the role of kept record k - 1
SameAsPrevious(kept, k) ==
    /\ k > 1
    /\ kept[k].timestamp = kept[k - 1].timestamp
    /\ kept[k].type = kept[k - 1].type

\* the number of kept records among the first k that start a run
RunsUpTo(kept, k) == Cardinality({j \in 1..k : ~SameAsPrevious(kept, j)})

\* the searched file is parsed by the worker as it is parsed here
Parsed(f) == wpc[f] \in {"exit", "done"}

\* C13: in the parsed sequence every run of consecutive kept records with
\* the same timestamp and role is one Message, which carries the content of
\* the last record of the run; so there are as many messages as runs.
C13_DedupKeepsLast ==
    \A f \in DOMAIN disk :
        Parsed(f) =>
            LET kept == KeptRecords(f)
                out == MessagesOf(f)
            IN /\ Len(out) = RunsUpTo(kept, Len(kept))
               /\ \A k \in 1..Len(kept) :
                      (k = Len(kept) \/ ~SameAsPrevious(kept, k + 1)) =>
                          /\ out[RunsUpTo(kept, k)].Text = extractText(kept[k])
                          /\ out[RunsUpTo(kept, k)].Timestamp = kept[k].timestamp
                          /\ out[RunsUpTo(kept, k)].Role = kept[k].type

\* a file of three kept records with the same timestamp and role, the last
\* with another content, has been parsed to the one message of the last
C13_Witness ==
    /\ Parsed(1)
    /\ Len(KeptRecords(1)) = 3
    /\ \A k \in 2..3 : SameAsPrevious(KeptRecords(1), k)
    /\ KeptRecords(1)[2].blocks # KeptRecords(1)[3].blocks
    /\ Len(MessagesOf(1)) = 1
    /\ MessagesOf(1)[1].Text = extractText(KeptRecords(1)[3])

\* the Message parseJSONL makes of a record
SameContent(msg, line) ==
    /\ msg.Text = extractText(line)
    /\ msg.Timestamp = line.timestamp
    /\ msg.Role = line.type
    /\ msg.Type = line.type

\* C14: the i-th message of the parsed sequence has ordinal index i - 1, and
\* the messages come from kept records at increasing positions of the file.
C14_DenseIndices ==
    \A f \in DOMAIN disk :
        Parsed(f) =>
            LET out == MessagesOf(f)
                kept == KeptRecords(f)
            IN /\ \A i \in 1..Len(out) : out[i].MsgIndex = i - 1
               /\ \E g \in [1..Len(out) -> 1..Len(kept)] :
                      /\ \A i \in 1..Len(out) : SameContent(out[i], kept[g[i]])
                      /\ \A i \in 1..Len(out) : \A j \in 1..Len(out) :
                             i < j => g[i] < g[j]

\* a file of three kept records, the second replacing the first, has been
\* parsed to two messages with the indices 0 and 1
C14_Witness ==
    /\ Parsed(1)
    /\ Len(disk[1].lines) = 3
    /\ Len(KeptRecords(1)) = 3
    /\ SameAsPrevious(KeptRecords(1), 2)
    /\ ~SameAsPrevious(KeptRecords(1), 3)
    /\ Len(MessagesOf(1)) = 2
    /\ MessagesOf(1)[2].MsgIndex = 1

Max(a, b) == IF a > b THEN a ELSE b

\* the matches the search holds: sent, merged or returned
HeldMatches ==
    UNION {SeqToSet(results[k].matches) : k \in 1..Len(results)}
    \cup SeqToSet(allMatches) \cup SeqToSet(ret)

\* C18: for a match at ordinal i in a session of n messages, ContextBefore
\* is the messages max(0, i - Before)..i - 1 and ContextAfter the messages
\* i + 1..min(n - 1, i + After) of the parsed sequence of the match's file,
\* in order.
C18_ContextClamped ==
    \A m \in HeldMatches :
        LET msgs == MessagesOf(m.Message.FilePath)
            i == m.Message.MsgIndex
            n == Len(msgs)
            first == Max(0, i - opts.Before)
            last == Min(n - 1, i + opts.After)
        IN /\ msgs[i + 1] = m.Message
           /\ m.ContextBefore = [k \in 1..(i - first) |-> msgs[first + k]]
           /\ m.ContextAfter = [k \in 1..(last - i) |-> msgs[i + 1 + k]]

\* with Before = 2 and After = 1, a match at the first of three messages has
\* been returned with no context before and one message after
C18_Witness ==
    /\ mainpc = "done"
    /\ opts.Before = 2
    /\ Len(MessagesOf(1)) = 3
    /\ \E k \in 1..Len(ret) :
           /\ ret[k].Message.MsgIndex = 0
           /\ ret[k].ContextBefore = <<>>
           /\ Len(ret[k].ContextAfter) = 1
    /\ \E k \in 1..Len(ret) :
           /\ ret[k].Message.MsgIndex = 2
           /\ Len(ret[k].ContextBefore) = 2
           /\ ret[k].ContextAfter = <<>>

\* C15 (as claimed): when the search root does not exist or cannot be read,
\* regexSearch returns an error, and main exits with code 2.
C15_UnreachableRootIsError ==
    /\ (mainpc = "done" /\ ~RootReachable) => searchErr # "nil"
    /\ (mpc = "exited" /\ mainpc = "done" /\ ~RootReachable) => exitCode = 2

\* C19 (as claimed): the project directory resolved for the working
\* directory is the project directory of no other working directory.
C19_EncodePathInjective ==
    (mpc \in {"regex", "inregex"} /\ ~args.allProjects) =>
        \A other \in CwdChoices :
            other # cwd => <<"/">> \o encodePath(other) # searchPath

SemanticReturned ==
    /\ args.semantic
    /\ mpc \in {"insemantic", "exited"}
    /\ searchErr = "nil"

\* the entries of the consulted indexes as <<index file, position>>
ConsultedEntries ==
    {ke \in (1..Len(indexes)) \X (1..1) :
        /\ indexes[ke[1]].name \in consulted
        /\ ke[2] <= Len(loadIndex(indexes[ke[1]].name, indexes[ke[1]].file).Entries)}

\* the vector of an entry of a consulted index
VectorOf(ke) == loadIndex(indexes[ke[1]].name, indexes[ke[1]].file).Entries[ke[2]].Vector

\* 100 times the cosine of the vector to the query, for the vectors of the
\* length of the query whose norm is 100, the query being a unit vector; 0
\* for a vector of another length
Cosine100(v) == IF Len(v) = Len(queryVec) THEN Dot(queryVec, v) ELSE 0

\* the entries of the consulted indexes scoring 0.31 or more
ScoringAtLeast31 ==
    {ke \in ConsultedEntries :
        /\ Len(VectorOf(ke)) = Len(queryVec)
        /\ Dot(VectorOf(ke), VectorOf(ke)) = 100 * 100
        /\ Cosine100(VectorOf(ke)) >= 31}

\* the entries of the consulted indexes scoring 0.30 or less
ScoringAtMost30 ==
    {ke \in ConsultedEntries :
        \/ Len(VectorOf(ke)) # Len(queryVec)
        \/ /\ Dot(VectorOf(ke), VectorOf(ke)) = 100 * 100
           /\ Cosine100(VectorOf(ke)) <= 30
        \/ Cosine100(VectorOf(ke)) <= 0}

\* C17: every Match a semantic search returns has a similarity strictly
\* greater than 0.3; no entry scoring 0.29 or exactly 0.30 is among them,
\* and every entry scoring 0.31 or more is, as far as the limit allows.
C17_StrictThreshold ==
    SemanticReturned =>
        /\ \A i \in 1..Len(ret) :
               /\ ret[i].Similarity.dot > 0
               /\ 100 * ret[i].Similarity.dot * ret[i].Similarity.dot
                      > 9 * ret[i].Similarity.den2
        /\ Len(ret) <= Cardinality(ConsultedEntries) - Cardinality(ScoringAtMost30)
        /\ Len(ret) >= Min(opts.MaxResults, Cardinality(ScoringAtLeast31))

\* a search has returned the entry scoring 0.31 and left out, from the same
\* consulted indexes, the entries scoring 0.30 and 0.29
C17_Witness ==
    /\ SemanticReturned
    /\ Len(ret) = 1
    /\ ret[1].Similarity.dot = 31
    /\ opts.MaxResults > 1
    /\ \E x \in ConsultedEntries : Cosine100(VectorOf(x)) = 30
    /\ \E x \in ConsultedEntries : Cosine100(VectorOf(x)) = 29

\* the directory of the project of an index file is the search path or lies
\* under it as a path
PathUnder(name, path) ==
    \/ <<"/">> \o name = path
    \/ HasPrefix(<<"/">> \o name, path \o <<"/">>)

\* C20: a project-scoped semantic search consults only the indexes whose
\* project directory is the search path or lies under it as a path; a
\* search of all projects consults every index.
C20_OnlyIndexesUnderRoot ==
    SemanticReturned =>
        IF args.allProjects
        THEN consulted = {indexes[k].name : k \in 1..Len(indexes)}
        ELSE \A k \in 1..Len(indexes) :
                 indexes[k].name \in consulted => PathUnder(indexes[k].name, searchPath)

\* C21: loadIndex returns for every condition of the index file, and when the
\* file is absent or cannot be opened or decoded, the Index it returns has
\* no entry, an empty Files map and the project name it was called with,
\* whatever Decode had stored before it failed.
C21_LoadIndexNeverFails ==
    /\ [](\A p \in Invocations : ipc[p] = "load" => ENABLED LoadAndWalk(p))
    /\ [][\A p \in Invocations :
            (ipc[p] = "load" /\ ipc'[p] = "stat" /\ ~reindexAll[p] /\ store.kind # "index")
                => idx'[p] = [Entries |-> <<>>, Files |-> <<>>,
                              Project |-> IndexedProjectName]]_vars

\* a pass that is not forced has loaded the index from a file whose decoding
\* failed after an entry had been stored
C21_Witness ==
    /\ ipc[1] = "stat"
    /\ cur[1] = 0
    /\ ~reindexAll[1]
    /\ store.kind = "corrupt"
    /\ store.index.Entries # <<>>
    /\ idx[1].Entries = <<>>
    /\ idx[1].Project = IndexedProjectName

\* the text the fallback order gives the only record of the only file
FallbackText ==
    LET line == disk[1].lines[1] IN
    IF line.message = "object" THEN ContentText(line.form, line.blocks)
    ELSE IF line.message \in {"null", "absent"} THEN <<>>
    ELSE IF line.data.message = "object" THEN ContentText(line.data.form, line.data.blocks)
    ELSE <<>>

\* C23: the text of a record is that of message.content when message is an
\* object, that of data.message.content exactly when message is present and
\* its decoding fails, by the same rules; a user or assistant record is
\* returned with that text, and a record whose text is empty after trimming
\* is not returned.
C23_FallbackOrder ==
    mainpc = "done" =>
        /\ Len(ret) <= 1
        /\ \A i \in 1..Len(ret) :
               ret[i].Message.Text = FallbackText /\ ret[i].Message.Text # <<>>
        /\ (disk[1].lines[1].type = "user" /\ FallbackText # <<>>) => Len(ret) = 1

\* a record whose message is not an object and whose data.message holds a
\* text has been returned with that text, while its message field held none
C23_Witness ==
    /\ mainpc = "done"
    /\ disk[1].lines[1].message = "other"
    /\ disk[1].lines[1].data.message = "object"
    /\ Len(ret) = 1
    /\ ret[1].Message.Text \in {<<"b">>, <<"b", " ", "b">>}

\* the messages the file of a Match holds now, none when it cannot be read
CurrentMessages(m) ==
    IF disk[m.Message.FilePath].readable
    THEN parseJSONL(m.Message.FilePath, disk[m.Message.FilePath].lines)
    ELSE <<>>

\* the entry of the only index a Match was made from
EntryOf(m) == indexes[1].file.index.Entries[1]

\* C24: the text of every Match of a semantic search is the current text of
\* the message at the entry's ordinal index when the file can be read and
\* has such a message, the stored preview otherwise, and the re-parsed
\* messages are read at indices between 0 and their number less one only.
C24_RehydrationSafe ==
    SemanticReturned =>
        \A i \in 1..Len(ret) :
            LET m == ret[i]
                msgs == CurrentMessages(m)
            IN /\ m.Message.Text =
                      IF disk[m.Message.FilePath].readable /\ m.Message.MsgIndex < Len(msgs)
                      THEN msgs[m.Message.MsgIndex + 1].Text
                      ELSE EntryOf(m).Preview
               /\ RehydrationReads(EntryOf(m), Len(msgs), opts) \subseteq 0..(Len(msgs) - 1)
               /\ Len(m.ContextBefore) + Len(m.ContextAfter) + 1
                      >= Cardinality(RehydrationReads(EntryOf(m), Len(msgs), opts))

\* a search has returned the current text for an entry whose ordinal index
\* is still in the file, with context asked for on both sides
C24_Witness ==
    /\ SemanticReturned
    /\ Len(ret) = 1
    /\ opts.Before > 0
    /\ ret[1].Message.MsgIndex < Len(CurrentMessages(ret[1]))
    /\ ret[1].Message.Text # EntryOf(ret[1]).Preview

\* the day a clock tick falls in
DayOf(t) == t \div TicksPerDay

\* C25 (as claimed): with a max age of 0 days, a session file last modified
\* earlier on the day of the search is among the files findSessionFiles
\* returns.
C25_ZeroDaysKeepsToday ==
    (mainpc \notin {"start", "uncalled"} /\ searchErr = "nil" /\ opts.MaxDays = 0) =>
        \A f \in DOMAIN disk :
            (disk[f].mtime <= now /\ DayOf(disk[f].mtime) = DayOf(now))
                => f \in SeqToSet(files)

\* every message the file at f holds has its entry in the index
AllMessagesIndexed(index, f) ==
    LET ms == parseJSONL(f, disk[f].lines) IN
    \A k \in 1..Len(ms) : NewEntry(ms[k], f) \in SeqToSet(index.Entries)

\* C26 (as claimed): when a pass that indexed every file, none of whose
\* embedding calls failed, saves the index, then for every file, whatever
\* was appended to it during the pass, either every message the file holds
\* is in the saved index or the recorded time is earlier than the file's
\* modification time, so that the next pass takes the file up again.
C26_AppendNeverMissed ==
    [][\A p \in Invocations :
         ( /\ ipc[p] = "encode"
           /\ ipc'[p] = "done"
           /\ totalNew[p] = Cardinality(DOMAIN disk)
           /\ embedErrors[p] = 0 )
         => \A f \in DOMAIN disk :
                /\ f \in DOMAIN store'.index.Files
                /\ \/ AllMessagesIndexed(store'.index, f)
                   \/ store'.index.Files[f] < disk[f].mtime]_vars

\* the steps the main goroutine, a worker and the closing goroutine have
\* before them at the least, a send counting with the receive it calls for
MainRank == [uncalled |-> 5, start |-> 4, spawn |-> 3, collect |-> 2, sort |-> 1, done |-> 0]

WorkerRank == [unborn |-> 5, acquire |-> 4, search |-> 3, exit |-> 1, done |-> 0]

CloserRank == [unborn |-> 1, wait |-> 1, done |-> 0]

RECURSIVE SumWorkerRanks(_, _)
SumWorkerRanks(w, n) == IF n = 0 THEN 0 ELSE WorkerRank[w[n]] + SumWorkerRanks(w, n - 1)

OtherStepsLeft(m, r, c) == MainRank[m] + Len(r) + CloserRank[c]

StepsLeft(m, w, r, c) == OtherStepsLeft(m, r, c) + SumWorkerRanks(w, Cardinality(DOMAIN w))

\* a step of the search takes the count of the steps left down; where no
\* worker has moved the workers' share of the count is the same on both sides
Progress ==
    IF wpc' = wpc
    THEN OtherStepsLeft(mainpc', results', closerpc') < OtherStepsLeft(mainpc, results, closerpc)
    ELSE StepsLeft(mainpc', wpc', results', closerpc') < StepsLeft(mainpc, wpc, results, closerpc)

\* C27: regexSearch terminates without deadlock: until it has returned some
\* goroutine can take a step, and every step lessens a natural number, so
\* that under a scheduler that runs a goroutine that can run it returns;
\* when it has returned every worker has finished and given back its slot
\* and the results channel is closed and drained; the channel never holds
\* more than its capacity and is closed by the closing goroutine alone, once.
C27_Terminates ==
    /\ [](mainpc # "done" => ENABLED Next)
    /\ [][Progress]_vars
    /\ [](sem = Cardinality(Holding))
    /\ [](mainpc = "done" =>
             /\ \A k \in 1..Len(files) : wpc[files[k]] = "done"
             /\ sem = 0
             /\ wg = 0
             /\ closed
             /\ results = <<>>)
    /\ [](Len(results) <= Len(files))
    /\ [][closed' # closed => (~closed /\ closerpc = "wait" /\ closerpc' = "done")]_vars

\* more workers than slots have been started and one of them waits for a
\* slot while a result waits in the channel
C27_Witness ==
    /\ sem = SemCapacity
    /\ \E f \in DOMAIN disk : wpc[f] = "acquire"
    /\ results # <<>>
    /\ ~closed
\* no two rows of the index have the same file path and ordinal index
NoDuplicateRows(index) ==
    \A i, j \in 1..Len(index.Entries) :
       i # j => <<index.Entries[i].FilePath, index.Entries[i].MsgIndex>>
                  # <<index.Entries[j].FilePath, index.Entries[j].MsgIndex>>

\* every row's file has a FileMetadata record, the files of except aside
EveryRowHasMetadata(index, except) ==
    \A i \in 1..Len(index.Entries) :
       index.Entries[i].FilePath \in DOMAIN index.Files \cup except

\* C28: with one indexer, through forced and non-forced passes, appends to
\* the session files, read failures and embedding failures, neither the saved
\* index nor the index in the indexer's memory holds two rows with the same
\* (file path, ordinal index), and every row's file has a FileMetadata record
\* (in memory, save for the file whose messages are being embedded, which is
\* recorded when the loop over them ends).
C28_IndexWellFormed ==
    /\ store.kind = "index" =>
          /\ NoDuplicateRows(store.index)
          /\ EveryRowHasMetadata(store.index, {})
    /\ \A p \in Invocations :
          /\ NoDuplicateRows(idx[p])
          /\ EveryRowHasMetadata(idx[p], IF ipc[p] = "embed" THEN {CurFile(p)} ELSE {})

\* a non-forced pass has saved both messages of a file that was modified,
\* after a pass in which an embedding failed
C28_Witness ==
    /\ store.kind = "index"
    /\ Len(store.index.Entries) = 2
    /\ \E f \in DOMAIN store.index.Files : store.index.Files[f] > 0
    /\ embedFailed # {}
    /\ \E p \in Invocations : ipc[p] = "done" /\ ~reindexAll[p] /\ totalSkipped[p] = 0

\* the rows and the FileMetadata an index holds for the file at path g
RowsOf(index, g) == SelectSeq(index.Entries, LAMBDA e : e.FilePath = g)

MetaOf(index, g) == IF g \in DOMAIN index.Files THEN <<index.Files[g]>> ELSE <<>>

SameFor(a, b, g) == RowsOf(a, g) = RowsOf(b, g) /\ MetaOf(a, g) = MetaOf(b, g)

\* the paths of the session files on disk and of the deleted one
KnownPaths == DOMAIN disk \cup {GonePath}

\* the invocation is in the loop over the files
InLoop(pc) == pc \in {"stat", "read", "embed"}

\* the file the loop is at is new to the index p holds or was found modified
\* after the time recorded for it
NewOrModified(p) ==
    \/ CurFile(p) \notin DOMAIN idx[p].Files
    \/ idx[p].Files[CurFile(p)]
          < (IF ipc[p] = "stat" THEN disk[CurFile(p)].mtime ELSE info[p])

\* C29: a non-forced pass starts from the saved index, a step of its loop
\* changes the rows and the FileMetadata of no file but the one it is at, and
\* of that one only when it is new or modified, and the pass saves what it
\* holds; so the rows and FileMetadata of every other file, a file deleted
\* from the disk included, are the same before and after the pass.  A row of
\* the deleted file that is in the saved index is still converted to a Match
\* by semanticSearch, with its preview as text.
C29_FrameOfPass ==
    /\ [][\A p \in Invocations :
            /\ (ipc[p] = "load" /\ ipc'[p] = "stat" /\ ~reindexAll[p] /\ store.kind = "index")
                  => \A g \in KnownPaths : SameFor(idx'[p], store.index, g)
            /\ (InLoop(ipc[p]) /\ InLoop(ipc'[p]) /\ ~reindexAll[p])
                  => \A g \in KnownPaths :
                        \/ SameFor(idx'[p], idx[p], g)
                        \/ g = CurFile(p) /\ NewOrModified(p)
            /\ (ipc[p] = "encode" /\ ipc'[p] = "done")
                  => /\ store'.kind = "index"
                     /\ \A g \in KnownPaths : SameFor(store'.index, idx[p], g)]_vars
    /\ [](store.kind = "index" =>
            \A k \in 1..Len(store.index.Entries) :
               LET e == store.index.Entries[k]
                   m == SemanticMatch([entry |-> e, similarity |-> [dot |-> 1, den2 |-> 1]],
                                      disk, opts)
               IN e.FilePath = GonePath =>
                     /\ e = SavedIndex.Entries[GonePath]
                     /\ m.Message.Text = e.Preview
                     /\ m.Message.FilePath = GonePath
                     /\ m.Message.MsgIndex = e.MsgIndex)

\* a non-forced pass has indexed a modified session file anew and saved the
\* index, the row and the record of the deleted file still in it
C29_Witness ==
    /\ store.kind = "index"
    /\ RowsOf(store.index, GonePath) = <<SavedIndex.Entries[GonePath]>>
    /\ MetaOf(store.index, GonePath) = <<0>>
    /\ Len(RowsOf(store.index, 1)) = 2
    /\ MetaOf(store.index, 1) # <<0>>
    /\ \E p \in Invocations : ipc[p] = "done" /\ ~reindexAll[p] /\ totalNew[p] = 1

\* what parseJSONL makes of the first k kept records of the file at f
ParsedUpTo(f, k) == parseJSONL(f, SubSeq(KeptRecords(f), 1, k))

\* C30: of two consecutive kept records of the same role that both have no
\* timestamp (the field is missing or not a string) the later takes the place
\* of the earlier in the parsed sequence, which does not grow; a kept record
\* whose role or timestamp differs from that of the kept record before it is
\* appended, the message of the record before it staying as it is, in the
\* sequence parsed so far and in the one returned.
C30_EmptyTimestampsDedupe ==
    \A f \in DOMAIN disk :
        Parsed(f) =>
            LET kept == KeptRecords(f) IN
            \A k \in 2..Len(kept) :
                LET before == ParsedUpTo(f, k - 1)
                    after == ParsedUpTo(f, k)
                IN /\ SameContent(after[Len(after)], kept[k])
                   /\ (/\ kept[k].timestamp = 0
                       /\ kept[k - 1].timestamp = 0
                       /\ kept[k].type = kept[k - 1].type)
                         => /\ Len(after) = Len(before)
                            /\ SubSeq(after, 1, Len(after) - 1) = SubSeq(before, 1, Len(before) - 1)
                   /\ (\/ kept[k].timestamp # kept[k - 1].timestamp
                       \/ kept[k].type # kept[k - 1].type)
                         => /\ after = Append(before, after[Len(after)])
                            /\ SameContent(before[Len(before)], kept[k - 1])
                            /\ MessagesOf(f)[Len(before)] = before[Len(before)]
                            /\ Len(MessagesOf(f)) >= Len(after)

\* a file of two records of one role without timestamp and with different
\* texts, followed by a record of the other role without timestamp, has been
\* parsed to two messages, the first with the text of the second record
C30_Witness ==
    /\ Parsed(1)
    /\ Len(KeptRecords(1)) = 3
    /\ \A k \in 1..3 : KeptRecords(1)[k].timestamp = 0
    /\ KeptRecords(1)[1].type = KeptRecords(1)[2].type
    /\ KeptRecords(1)[1].blocks # KeptRecords(1)[2].blocks
    /\ KeptRecords(1)[3].type # KeptRecords(1)[2].type
    /\ Len(MessagesOf(1)) = 2
    /\ MessagesOf(1)[1].Text = extractText(KeptRecords(1)[2])

====
